---- MODULE Spec2Model ----
(***************************************************************************)
(* extraDistr: elementwise density / cumulative / quantile / sampling      *)
(* functions over recycled parameter vectors.                              *)
(*                                                                         *)
(* A call of an exported function is modelled on exact values: a double is *)
(* a rational, one of the IEEE / R special values (NA, NaN, +Inf, -Inf),   *)
(* or a symbolic term for a transcendental result that is no rational      *)
(* (log 2, exp 1, ...).  Rounding is not modelled.                         *)
(***************************************************************************)
EXTENDS Integers, Sequences, FiniteSets, TLC

VARIABLES
    fn,         \* the exported function being called
    arg_x,      \* first argument: evaluation points x, or probabilities p
    arg_th,     \* the parameters, in the order of the C++ signature
    arg_lt,     \* the lower_tail flag
    arg_lg,     \* the log_prob flag
    junk,       \* what the memory past the end of a vector holds
    pc,         \* "ready", "loop", "post", "done", "error", "crash"
    res,        \* the outcome of the call (see Outcome)
    arg_n,      \* the number of samples asked of a sampling function
    idx,        \* loop index i of a call that is modelled step by step
    u_seq       \* the uniform draws a sampling call has consumed

vars == <<fn, arg_x, arg_th, arg_lt, arg_lg, arg_n, junk, pc, res, idx, u_seq>>

(***************************************************************************)
(* Values                                                                  *)
(***************************************************************************)
RECURSIVE GCD(_, _)
GCD(m, n) == IF n = 0 THEN m ELSE GCD(n, m % n)

Abs(n) == IF n < 0 THEN -n ELSE n

\* the rational n/d in lowest terms, d > 0
Rat(n, d) ==
    [k |-> "num",
     n |-> ((IF d < 0 THEN -n ELSE n) \div GCD(Abs(n), Abs(d))),
     d |-> (Abs(d) \div GCD(Abs(n), Abs(d))),
     a |-> <<>>]

Whole(n) == [k |-> "num", n |-> n, d |-> 1, a |-> <<>>]
Zero == Whole(0)
One == Whole(1)

Special(name) == [k |-> name, n |-> 0, d |-> 1, a |-> <<>>]
NA_REAL == Special("NA")
NAN == Special("NaN")
R_PosInf == Special("Inf")
R_NegInf == Special("-Inf")

\* a transcendental result kept as a term
Sym(op, args) == [k |-> op, n |-> 0, d |-> 1, a |-> args]

IsNum(v) == v.k = "num"
IsInf(v) == v.k \in {"Inf", "-Inf"}
IsSym(v) == v.k \notin {"num", "NA", "NaN", "Inf", "-Inf"}

\* ISNAN(): true of NA and of NaN
ISNAN(v) == v.k \in {"NA", "NaN"}

\* R_FINITE()
R_FINITE(v) == ~ISNAN(v) /\ ~IsInf(v)

\* std::isinf()
isinf(v) == IsInf(v)

\* sign of a number or an infinity
Sgn(v) ==
    CASE v.k = "Inf" -> 1
      [] v.k = "-Inf" -> -1
      [] v.k = "num" -> (IF v.n > 0 THEN 1 ELSE IF v.n < 0 THEN -1 ELSE 0)

\* v < w when one side is a term: decided for log q and exp r against a
\* rational (log q < 0 iff q < 1, exp r > 1 iff r > 0, exp r > 0), for a
\* rational against sqrt(2 pi) = 2.5066.., for a term against 0 by the sign
\* of their difference, and for nothing else (no arm matches, and the
\* evaluation stops with an error)
RECURSIVE SgnOf(_)
SymLt(v, w) ==
    CASE v.k = "log" /\ IsNum(v.a[1]) /\ w = Zero -> v.a[1].n < v.a[1].d
      [] w.k = "log" /\ IsNum(w.a[1]) /\ v = Zero -> w.a[1].n > w.a[1].d
      [] v.k = "log" /\ IsNum(v.a[1]) /\ IsNum(w) /\ w.n > 0
            /\ v.a[1].n <= v.a[1].d -> TRUE
      [] w.k = "log" /\ IsNum(w.a[1]) /\ IsNum(v) /\ v.n > 0
            /\ w.a[1].n <= w.a[1].d -> FALSE
      [] v.k = "exp" /\ IsNum(v.a[1]) /\ IsNum(w) /\ w.n <= 0 -> FALSE
      [] w.k = "exp" /\ IsNum(w.a[1]) /\ IsNum(v) /\ v.n <= 0 -> TRUE
      [] v.k = "exp" /\ IsNum(v.a[1]) /\ w = One -> v.a[1].n < 0
      [] w.k = "exp" /\ IsNum(w.a[1]) /\ v = One -> w.a[1].n > 0
      [] IsNum(v) /\ w.k = "sqrt" -> v.n * 1000 < 2507 * v.d
      [] v.k = "sqrt" /\ IsNum(w) -> 2507 * w.d <= 1000 * w.n
      [] v = Zero \/ w = Zero -> SgnOf(Sym("sub", <<v, w>>)) < 0

\* the sign of a term, for the terms whose sign follows from the signs of
\* their parts: exp t > 0, -t, c * t, log q, 1 - t and log(1 - t) for t < 0,
\* 0 - t and t - 0
SgnOf(t) ==
    CASE ~IsSym(t) -> Sgn(t)
      [] t.k = "exp" -> 1
      [] t.k = "neg" -> 0 - SgnOf(t.a[1])
      [] t.k = "mul" /\ IsNum(t.a[1]) -> Sgn(t.a[1]) * SgnOf(t.a[2])
      [] t.k = "log" /\ IsNum(t.a[1]) ->
            (IF t.a[1].n < t.a[1].d THEN -1
             ELSE IF t.a[1].n = t.a[1].d THEN 0 ELSE 1)
      [] t.k = "log" /\ t.a[1].k = "sub" /\ t.a[1].a[1] = One
            /\ SgnOf(t.a[1].a[2]) < 0 -> 1
      [] t.k = "sub" /\ IsNum(t.a[1]) /\ t.a[1].n >= 0
            /\ SgnOf(t.a[2]) < 0 -> 1
      [] t.k = "sub" /\ t.a[1] = Zero -> 0 - SgnOf(t.a[2])
      [] t.k = "sub" /\ t.a[2] = Zero -> SgnOf(t.a[1])

\* x < y on doubles: false when either side is NA or NaN
Lt(v, w) ==
    /\ ~ISNAN(v) /\ ~ISNAN(w)
    /\ CASE IsSym(v) /\ IsInf(w) -> w.k = "Inf"
         [] IsInf(v) /\ IsSym(w) -> v.k = "-Inf"
         [] IsSym(v) \/ IsSym(w) -> SymLt(v, w)
         [] v.k = "Inf" -> FALSE
         [] v.k = "-Inf" -> w.k # "-Inf"
         [] w.k = "Inf" -> TRUE
         [] w.k = "-Inf" -> FALSE
         [] OTHER -> v.n * w.d < w.n * v.d

Gt(v, w) == Lt(w, v)
Eq(v, w) == ~ISNAN(v) /\ ~ISNAN(w) /\ ~Lt(v, w) /\ ~Lt(w, v)
Le(v, w) == ~ISNAN(v) /\ ~ISNAN(w) /\ ~Lt(w, v)
Ge(v, w) == Le(w, v)
Ne(v, w) == ~Eq(v, w)

Neg(v) ==
    CASE ISNAN(v) -> v
      [] v.k = "Inf" -> R_NegInf
      [] v.k = "-Inf" -> R_PosInf
      [] v.k = "num" -> Rat(-v.n, v.d)
      [] v.k = "neg" -> v.a[1]
      [] OTHER -> Sym("neg", <<v>>)

\* a NaN operand is passed on (the first one when both are)
Add(v, w) ==
    CASE ISNAN(v) -> v
      [] ISNAN(w) -> w
      [] IsInf(v) /\ IsInf(w) -> (IF v.k = w.k THEN v ELSE NAN)
      [] IsInf(v) -> v
      [] IsInf(w) -> w
      [] IsNum(v) /\ IsNum(w) -> Rat(v.n * w.d + w.n * v.d, v.d * w.d)
      [] v = Zero -> w
      [] w = Zero -> v
      [] OTHER -> Sym("add", <<v, w>>)

Sub(v, w) ==
    CASE ISNAN(v) -> v
      [] ISNAN(w) -> w
      [] IsSym(w) /\ w.k = "sub" /\ w.a[1] = v -> w.a[2]
      [] IsSym(v) /\ v.k = "sub" /\ v.a[1] = w -> Neg(v.a[2])
      [] v = Zero /\ IsSym(w) -> Neg(w)
      [] IsSym(v) \/ IsSym(w) ->
            (IF w = Zero THEN v
             ELSE IF IsInf(w) THEN Neg(w)
             ELSE IF IsInf(v) THEN v
             ELSE Sym("sub", <<v, w>>))
      [] OTHER -> Add(v, Neg(w))

\* a term t scaled by the number c, and the product of a number and a term
\* with the numeric factors of the term gathered: c * (d * t) is (c * d) * t
\* and c * (-t) is (-c) * t
Scale(c, t) ==
    IF c = Zero THEN Zero ELSE IF c = One THEN t ELSE Sym("mul", <<c, t>>)

ScaleTerm(c, w) ==
    CASE w.k = "mul" /\ IsNum(w.a[1]) ->
            Scale(Rat(c.n * w.a[1].n, c.d * w.a[1].d), w.a[2])
      [] w.k = "neg" /\ w.a[1].k = "mul" /\ IsNum(w.a[1].a[1]) ->
            Scale(Rat(-c.n * w.a[1].a[1].n, c.d * w.a[1].a[1].d), w.a[1].a[2])
      [] w.k = "neg" -> Scale(Rat(-c.n, c.d), w.a[1])
      [] OTHER -> Scale(c, w)

Mul(v, w) ==
    CASE ISNAN(v) -> v
      [] ISNAN(w) -> w
      [] IsNum(v) /\ IsSym(w) -> ScaleTerm(v, w)
      [] IsSym(v) \/ IsSym(w) ->
            (IF v = One THEN w
             ELSE IF w = One THEN v
             ELSE IF v = Zero \/ w = Zero THEN Zero
             ELSE Sym("mul", <<v, w>>))
      [] IsInf(v) \/ IsInf(w) ->
            (IF Sgn(v) * Sgn(w) > 0 THEN R_PosInf
             ELSE IF Sgn(v) * Sgn(w) < 0 THEN R_NegInf
             ELSE NAN)
      [] OTHER -> Rat(v.n * w.n, v.d * w.d)

Div(v, w) ==
    CASE ISNAN(v) -> v
      [] ISNAN(w) -> w
      [] IsSym(v) \/ IsSym(w) ->
            (IF w = One THEN v
             ELSE IF IsNum(w) /\ w.n # 0 /\ v.k = "mul" /\ v.a[1] = w
             THEN v.a[2]
             ELSE IF IsNum(w) /\ w.n # 0 /\ v.k = "neg"
                     /\ v.a[1].k = "mul" /\ v.a[1].a[1] = w
             THEN Neg(v.a[1].a[2])
             ELSE Sym("div", <<v, w>>))
      [] IsInf(v) /\ IsInf(w) -> NAN
      [] IsInf(v) -> (IF Sgn(w) >= 0 THEN v ELSE Neg(v))
      [] IsInf(w) -> Zero
      [] w.n = 0 ->
            (IF v.n > 0 THEN R_PosInf ELSE IF v.n < 0 THEN R_NegInf ELSE NAN)
      [] OTHER -> Rat(v.n * w.d, v.d * w.n)

\* the largest numerator or denominator a power is worked out to; a larger
\* power is kept as a term
Cap == 10000

\* b^e for whole b >= 0 and e >= 0, as long as it stays within Cap (beyond
\* it, some number above Cap)
RECURSIVE IPow(_, _)
IPow(b, e) ==
    IF e = 0 THEN 1
    ELSE LET r == IPow(b, e - 1)
         IN  IF r > Cap \/ b > Cap THEN Cap + 1 ELSE b * r

IsIntVal(v) == IsNum(v) /\ v.d = 1

\* the exact e-th root of the rational v >= 0, when it is a rational
RootExists(v, e) ==
    /\ v.n <= Cap /\ v.d <= Cap
    /\ \E r \in 0..v.n : \E s \in 1..v.d : IPow(r, e) = v.n /\ IPow(s, e) = v.d
Root(v, e) ==
    LET r == CHOOSE r \in 0..v.n : \E s \in 1..v.d :
                 IPow(r, e) = v.n /\ IPow(s, e) = v.d
        s == CHOOSE s \in 1..v.d : IPow(s, e) = v.d
    IN  Rat(r, s)

\* r^m for a rational r and a whole m > 0; b and e are the operands of the
\* pow() that asks for it
RatPow(r, m, b, e) ==
    LET n == IPow(Abs(r.n), m)
        d == IPow(r.d, m)
        s == IF r.n < 0 /\ m % 2 = 1 THEN -1 ELSE 1
    IN  IF n > Cap \/ d > Cap THEN Sym("pow", <<b, e>>) ELSE Rat(s * n, d)

\* pow(b, e) of <math.h>
Pow(b, e) ==
    CASE e = Zero -> One
      [] b = One -> One
      [] ISNAN(b) -> b
      [] ISNAN(e) -> e
      [] IsSym(b) \/ IsSym(e) ->
            (IF e = One THEN b ELSE Sym("pow", <<b, e>>))
      [] e.k = "Inf" ->
            (IF IsInf(b) THEN R_PosInf
             ELSE IF Abs(b.n) < b.d THEN Zero
             ELSE IF Abs(b.n) > b.d THEN R_PosInf ELSE One)
      [] e.k = "-Inf" ->
            (IF IsInf(b) THEN Zero
             ELSE IF Abs(b.n) < b.d THEN R_PosInf
             ELSE IF Abs(b.n) > b.d THEN Zero ELSE One)
      [] b.k = "Inf" -> (IF Sgn(e) > 0 THEN R_PosInf ELSE Zero)
      [] b.k = "-Inf" ->
            (IF Sgn(e) < 0 THEN Zero
             ELSE IF IsIntVal(e) /\ e.n % 2 = 1 THEN R_NegInf ELSE R_PosInf)
      [] IsIntVal(e) /\ e.n > 0 -> RatPow(b, e.n, b, e)
      [] IsIntVal(e) /\ e.n < 0 ->
            (IF b.n = 0 THEN R_PosInf
             ELSE RatPow(Rat(b.d, b.n), -e.n, b, e))
      [] b.n < 0 -> NAN
      [] b.n = 0 -> (IF e.n > 0 THEN Zero ELSE R_PosInf)
      [] e.n > 0 /\ RootExists(b, e.d) -> RatPow(Root(b, e.d), e.n, b, e)
      [] e.n < 0 /\ RootExists(b, e.d) ->
            LET r == Root(b, e.d) IN RatPow(Rat(r.d, r.n), -e.n, b, e)
      [] OTHER -> Sym("pow", <<b, e>>)

\* a term log t or (log t) * c, as the pair <<t, c>>
IsLogPow(t) == t.k = "log" \/ (t.k = "mul" /\ t.a[1].k = "log" /\ IsNum(t.a[2]))
LogPow(t) == IF t.k = "log" THEN <<t.a[1], One>> ELSE <<t.a[1].a[1], t.a[2]>>

\* the terms whose exponential is a quotient of powers: c log s, -c log t and
\* c log s - d log t, as the pairs of the numerator and of the denominator
ExpParts(v) ==
    IF IsLogPow(v) THEN <<LogPow(v), <<One, One>>>>
    ELSE IF v.k = "sub" /\ IsLogPow(v.a[1]) /\ IsLogPow(v.a[2])
    THEN <<LogPow(v.a[1]), LogPow(v.a[2])>>
    ELSE IF v.k = "neg" /\ IsLogPow(v.a[1]) THEN <<<<One, One>>, LogPow(v.a[1])>>
    ELSE <<>>

\* exp(): exp(c log s - d log t) is s^c / t^d
Exp(v) ==
    CASE ISNAN(v) -> v
      [] v.k = "Inf" -> v
      [] v.k = "-Inf" -> Zero
      [] v = Zero -> One
      [] ExpParts(v) # <<>> ->
            LET f == [i \in 1..2 |-> Pow(ExpParts(v)[i][1], ExpParts(v)[i][2])]
            IN  Div(f[1], f[2])
      [] OTHER -> Sym("exp", <<v>>)

\* log(): log(exp t) is t, the log of a negative number is NaN
Log(v) ==
    CASE ISNAN(v) -> v
      [] v.k = "Inf" -> v
      [] v.k = "-Inf" -> NAN
      [] IsNum(v) /\ v.n < 0 -> NAN
      [] v = Zero -> R_NegInf
      [] v = One -> Zero
      [] v.k = "exp" -> v.a[1]
      [] OTHER -> Sym("log", <<v>>)

\* floor() and ceil()
Floor(v) ==
    CASE IsNum(v) -> Whole(v.n \div v.d)
      [] IsSym(v) -> Sym("floor", <<v>>)
      [] OTHER -> v

Ceil(v) ==
    CASE IsNum(v) -> Whole(-((-v.n) \div v.d))
      [] IsSym(v) -> Sym("ceil", <<v>>)
      [] OTHER -> v

(***************************************************************************)
(* Vectors, and what a call leaves behind                                  *)
(***************************************************************************)
Max(S) == CHOOSE m \in S : \A n \in S : n <= m

\* v[c] for a C index c: past the end of v the read finds whatever is there
At(v, c) == IF c < Len(v) THEN v[c + 1] ELSE junk

RECURSIVE SumW(_)
SumW(ks) == IF ks = <<>> THEN 0 ELSE Head(ks).w + SumW(Tail(ks))

Vals(ks) == [j \in 1..Len(ks) |-> ks[j].v]

\* a kernel's return value, and "Rcpp::warning(...); return NAN;"
Ret(v) == [v |-> v, w |-> 0]
Warn == [v |-> NAN, w |-> 1]

\* NumericVector p(n): n zeros
Alloc(n) == [j \in 1..n |-> Zero]

\* for (i = 0; i < cnt; i++) p[i] = 1-p[i];   and   p = 1.0 - p;
Complement(p, cnt) ==
    [j \in 1..Len(p) |-> IF j <= cnt THEN Sub(One, p[j]) ELSE p[j]]
\* for (i = 0; i < cnt; i++) p[i] = log(p[i]);   and   p = Rcpp::log(p);
LogEach(p, cnt) == [j \in 1..Len(p) |-> IF j <= cnt THEN Log(p[j]) ELSE p[j]]
\* for (i = 0; i < cnt; i++) p[i] = exp(p[i]);   and   p = Rcpp::exp(p);
ExpEach(p, cnt) == [j \in 1..Len(p) |-> IF j <= cnt THEN Exp(p[j]) ELSE p[j]]

\* is_true(any(v <= 0)), is_true(any(v < 0)), is_true(any(v > 1))
AnyLe0(v) == \E j \in 1..Len(v) : Le(v[j], Zero)
AnyLt0(v) == \E j \in 1..Len(v) : Lt(v[j], Zero)
AnyGt1(v) == \E j \in 1..Len(v) : Gt(v[j], One)
\* is_true(any(b < a)): the comparison runs over the length of b and reads a
\* at the same index, with no recycling
AnyLess(b, a) == \E j \in 1..Len(b) : Lt(b[j], At(a, j - 1))

\* the outcome of a call: status "ok" (returned) or "error" (exception);
\* val the returned vector; warn the number of diagnostics; used[i] the
\* operands the kernel got at loop index i; oob an access out of bounds;
\* arg1 the caller's first argument as the call leaves it
Returned(val, ks, used, oob, arg1) ==
    [status |-> "ok", val |-> val, warn |-> SumW(ks), used |-> used,
     oob |-> oob, arg1 |-> arg1]
Thrown(arg1) ==
    [status |-> "error", val |-> <<>>, warn |-> 0, used |-> <<>>,
     oob |-> FALSE, arg1 |-> arg1]

(***************************************************************************)
(* Lomax distribution                                                      *)
(***************************************************************************)
pdf_lomax(x, lambda, kappa) ==
    IF Gt(x, Zero)
    THEN Div(Mul(lambda, kappa), Pow(Add(One, Mul(lambda, x)), Add(kappa, One)))
    ELSE Zero

cdf_lomax(x, lambda, kappa) ==
    IF Gt(x, Zero)
    THEN Sub(One, Pow(Add(One, Mul(lambda, x)), Neg(kappa)))
    ELSE Zero

invcdf_lomax(p, lambda, kappa) ==
    Div(Sub(Pow(Sub(One, p), Div(Neg(One), kappa)), One), lambda)

logpdf_lomax(x, lambda, kappa) ==
    IF Gt(x, Zero)
    THEN Sub(Add(Log(lambda), Log(kappa)),
             Mul(Log(Add(One, Mul(lambda, x))), Add(kappa, One)))
    ELSE R_NegInf

cpp_dlomax(x, lambda, kappa, log_prob) ==
    IF AnyLe0(lambda) \/ AnyLe0(kappa) THEN Thrown(x)
    ELSE
    LET n == Len(x)
        nl == Len(lambda)
        nk == Len(kappa)
        Nmax == Max({n, nl, nk})
        used == [j \in 1..Nmax |->
                    <<At(x, (j-1) % n), At(lambda, (j-1) % nl), At(kappa, (j-1) % nk)>>]
        ks == [j \in 1..Nmax |-> Ret(logpdf_lomax(used[j][1], used[j][2], used[j][3]))]
        p == Vals(ks)
    IN  Returned(ExpEach(p, IF ~log_prob THEN Nmax ELSE 0), ks, used, FALSE, x)

cpp_plomax(x, lambda, kappa, lower_tail, log_prob) ==
    IF AnyLe0(lambda) \/ AnyLe0(kappa) THEN Thrown(x)
    ELSE
    LET n == Len(x)
        nl == Len(lambda)
        nk == Len(kappa)
        Nmax == Max({n, nl, nk})
        used == [j \in 1..Nmax |->
                    <<At(x, (j-1) % n), At(lambda, (j-1) % nl), At(kappa, (j-1) % nk)>>]
        ks == [j \in 1..Nmax |-> Ret(cdf_lomax(used[j][1], used[j][2], used[j][3]))]
        p == Vals(ks)
        p1 == Complement(p, IF ~lower_tail THEN Nmax ELSE 0)
        p2 == LogEach(p1, IF log_prob THEN Nmax ELSE 0)
    IN  Returned(p2, ks, used, FALSE, x)

\* p is changed in place: the caller's vector holds the adjusted values
cpp_qlomax(p, lambda, kappa, lower_tail, log_prob) ==
    IF AnyLe0(lambda) \/ AnyLe0(kappa) THEN Thrown(p)
    ELSE
    LET n == Len(p)
        nl == Len(lambda)
        nk == Len(kappa)
        Nmax == Max({n, nl, nk})
        p1 == ExpEach(p, IF log_prob THEN n ELSE 0)
        p2 == Complement(p1, IF ~lower_tail THEN n ELSE 0)
        used == [j \in 1..Nmax |->
                    <<At(p2, (j-1) % n), At(lambda, (j-1) % nl), At(kappa, (j-1) % nk)>>]
        ks == [j \in 1..Nmax |-> Ret(invcdf_lomax(used[j][1], used[j][2], used[j][3]))]
    IN  Returned(Vals(ks), ks, used, FALSE, p2)

(***************************************************************************)
(* Kumaraswamy distribution                                                *)
(***************************************************************************)
pdf_kumar(x, a, b) ==
    IF Ge(x, Zero) /\ Le(x, One)
    THEN Mul(Mul(Mul(a, b), Pow(x, Sub(a, One))),
             Pow(Sub(One, Pow(x, a)), Sub(b, One)))
    ELSE Zero

cdf_kumar(x, a, b) ==
    IF Ge(x, Zero) /\ Le(x, One)
    THEN Sub(One, Pow(Sub(One, Pow(x, a)), b))
    ELSE Zero

invcdf_kumar(p, a, b) ==
    Pow(Sub(One, Pow(Sub(One, p), Div(One, b))), Div(One, a))

logpdf_kumar(x, a, b) ==
    IF Ge(x, Zero) /\ Le(x, One)
    THEN Add(Add(Add(Log(a), Log(b)), Mul(Log(x), Sub(a, One))),
             Mul(Log(Sub(One, Pow(x, a))), Sub(b, One)))
    ELSE R_NegInf

cpp_dkumar(x, a, b, log_prob) ==
    IF AnyLe0(a) \/ AnyLe0(b) THEN Thrown(x)
    ELSE
    LET n == Len(x)
        na == Len(a)
        nb == Len(b)
        Nmax == Max({n, na, nb})
        used == [j \in 1..Nmax |->
                    <<At(x, (j-1) % n), At(a, (j-1) % na), At(b, (j-1) % nb)>>]
        ks == [j \in 1..Nmax |-> Ret(logpdf_kumar(used[j][1], used[j][2], used[j][3]))]
        p == Vals(ks)
    IN  Returned(ExpEach(p, IF ~log_prob THEN Nmax ELSE 0), ks, used, FALSE, x)

cpp_pkumar(x, a, b, lower_tail, log_prob) ==
    IF AnyLe0(a) \/ AnyLe0(b) THEN Thrown(x)
    ELSE
    LET n == Len(x)
        na == Len(a)
        nb == Len(b)
        Nmax == Max({n, na, nb})
        used == [j \in 1..Nmax |->
                    <<At(x, (j-1) % n), At(a, (j-1) % na), At(b, (j-1) % nb)>>]
        ks == [j \in 1..Nmax |-> Ret(cdf_kumar(used[j][1], used[j][2], used[j][3]))]
        p == Vals(ks)
        p1 == Complement(p, IF ~lower_tail THEN Nmax ELSE 0)
        p2 == LogEach(p1, IF log_prob THEN Nmax ELSE 0)
    IN  Returned(p2, ks, used, FALSE, x)

\* p is changed in place
cpp_qkumar(p, a, b, lower_tail, log_prob) ==
    IF AnyLt0(p) \/ AnyGt1(p) \/ AnyLe0(a) \/ AnyLe0(b) THEN Thrown(p)
    ELSE
    LET n == Len(p)
        na == Len(a)
        nb == Len(b)
        Nmax == Max({n, na, nb})
        p1 == ExpEach(p, IF log_prob THEN n ELSE 0)
        p2 == Complement(p1, IF ~lower_tail THEN n ELSE 0)
        used == [j \in 1..Nmax |->
                    <<At(p2, (j-1) % n), At(a, (j-1) % na), At(b, (j-1) % nb)>>]
        ks == [j \in 1..Nmax |-> Ret(invcdf_kumar(used[j][1], used[j][2], used[j][3]))]
    IN  Returned(Vals(ks), ks, used, FALSE, p2)

(***************************************************************************)
(* Power distribution, src/unnamed/part_000                                *)
(***************************************************************************)
pdf_power_part000(x, alpha, beta) ==
    IF Gt(x, Zero) /\ Lt(x, alpha)
    THEN Div(Mul(beta, Pow(x, Sub(beta, One))), Pow(alpha, beta))
    ELSE Zero

cdf_power_part000(x, alpha, beta) ==
    IF Gt(x, Zero) /\ Lt(x, alpha)
    THEN Div(Pow(x, beta), Pow(alpha, beta))
    ELSE Zero

invcdf_power_part000(p, alpha, beta) == Mul(alpha, Pow(p, Div(One, beta)))

logpdf_power_part000(x, alpha, beta) ==
    IF Gt(x, Zero) /\ Lt(x, alpha)
    THEN Sub(Add(Log(beta), Mul(Log(x), Sub(beta, One))), Mul(Log(alpha), beta))
    ELSE R_NegInf

logcdf_power_part000(x, alpha, beta) ==
    IF Gt(x, Zero) /\ Lt(x, alpha)
    THEN Sub(Mul(Log(x), beta), Mul(Log(alpha), beta))
    ELSE R_NegInf

cpp_dpower_part000(x, alpha, beta, log_prob) ==
    IF AnyLt0(x) THEN Thrown(x)
    ELSE
    LET n == Len(x)
        na == Len(alpha)
        nb == Len(beta)
        Nmax == Max({n, na, nb})
        used == [j \in 1..Nmax |->
                    <<At(x, (j-1) % n), At(alpha, (j-1) % na), At(beta, (j-1) % nb)>>]
        ks == [j \in 1..Nmax |->
                  Ret(logpdf_power_part000(used[j][1], used[j][2], used[j][3]))]
        p == Vals(ks)
    IN  Returned(ExpEach(p, IF ~log_prob THEN Nmax ELSE 0), ks, used, FALSE, x)

cpp_ppower_part000(x, alpha, beta, lower_tail, log_prob) ==
    IF AnyLt0(x) THEN Thrown(x)
    ELSE
    LET n == Len(x)
        na == Len(alpha)
        nb == Len(beta)
        Nmax == Max({n, na, nb})
        used == [j \in 1..Nmax |->
                    <<At(x, (j-1) % n), At(alpha, (j-1) % na), At(beta, (j-1) % nb)>>]
        ks == [j \in 1..Nmax |->
                  Ret(Exp(logcdf_power_part000(used[j][1], used[j][2], used[j][3])))]
        p == Vals(ks)
        p1 == Complement(p, IF ~lower_tail THEN Nmax ELSE 0)
        p2 == LogEach(p1, IF log_prob THEN Nmax ELSE 0)
    IN  Returned(p2, ks, used, FALSE, x)

\* p is changed in place
cpp_qpower_part000(p, alpha, beta, lower_tail, log_prob) ==
    LET n == Len(p)
        na == Len(alpha)
        nb == Len(beta)
        Nmax == Max({n, na, nb})
        p1 == ExpEach(p, IF log_prob THEN n ELSE 0)
        p2 == Complement(p1, IF ~lower_tail THEN n ELSE 0)
        used == [j \in 1..Nmax |->
                    <<At(p2, (j-1) % n), At(alpha, (j-1) % na), At(beta, (j-1) % nb)>>]
        ks == [j \in 1..Nmax |->
                  Ret(invcdf_power_part000(used[j][1], used[j][2], used[j][3]))]
    IN  Returned(Vals(ks), ks, used, FALSE, p2)

(***************************************************************************)
(* Power distribution, src/src/discrete-weibull-distribution.cpp           *)
(***************************************************************************)
pdf_power(x, alpha, beta) ==
    IF ISNAN(x) \/ ISNAN(alpha) \/ ISNAN(beta) THEN Ret(NA_REAL)
    ELSE IF Le(x, Zero) \/ Ge(x, alpha) THEN Ret(Zero)
    ELSE Ret(Div(Mul(beta, Pow(x, Sub(beta, One))), Pow(alpha, beta)))

cdf_power(x, alpha, beta) ==
    IF ISNAN(x) \/ ISNAN(alpha) \/ ISNAN(beta) THEN Ret(NA_REAL)
    ELSE IF Le(x, Zero) THEN Ret(Zero)
    ELSE IF Ge(x, alpha) THEN Ret(One)
    ELSE Ret(Div(Pow(x, beta), Pow(alpha, beta)))

invcdf_power(p, alpha, beta) ==
    IF ISNAN(p) \/ ISNAN(alpha) \/ ISNAN(beta) THEN Ret(NA_REAL)
    ELSE IF Lt(p, Zero) \/ Gt(p, One) THEN Warn
    ELSE Ret(Mul(alpha, Pow(p, Div(One, beta))))

logpdf_power(x, alpha, beta) ==
    IF ISNAN(x) \/ ISNAN(alpha) \/ ISNAN(beta) THEN Ret(NA_REAL)
    ELSE IF Le(x, Zero) \/ Ge(x, alpha) THEN Ret(R_NegInf)
    ELSE Ret(Sub(Add(Log(beta), Mul(Log(x), Sub(beta, One))), Mul(Log(alpha), beta)))

logcdf_power(x, alpha, beta) ==
    IF ISNAN(x) \/ ISNAN(alpha) \/ ISNAN(beta) THEN Ret(NA_REAL)
    ELSE IF Le(x, Zero) THEN Ret(R_NegInf)
    ELSE IF Ge(x, alpha) THEN Ret(Zero)
    ELSE Ret(Sub(Mul(Log(x), beta), Mul(Log(alpha), beta)))

cpp_dpower(x, alpha, beta, log_prob) ==
    LET n == Len(x)
        na == Len(alpha)
        nb == Len(beta)
        Nmax == Max({n, na, nb})
        used == [j \in 1..Nmax |->
                    <<At(x, (j-1) % n), At(alpha, (j-1) % na), At(beta, (j-1) % nb)>>]
        ks == [j \in 1..Nmax |-> logpdf_power(used[j][1], used[j][2], used[j][3])]
        p == Vals(ks)
    IN  Returned(ExpEach(p, IF ~log_prob THEN Nmax ELSE 0), ks, used, FALSE, x)

\* the complement is taken of the log-scale values, before the exp
cpp_ppower(x, alpha, beta, lower_tail, log_prob) ==
    LET n == Len(x)
        na == Len(alpha)
        nb == Len(beta)
        Nmax == Max({n, na, nb})
        used == [j \in 1..Nmax |->
                    <<At(x, (j-1) % n), At(alpha, (j-1) % na), At(beta, (j-1) % nb)>>]
        ks == [j \in 1..Nmax |-> logcdf_power(used[j][1], used[j][2], used[j][3])]
        p == Vals(ks)
        p1 == Complement(p, IF ~lower_tail THEN Nmax ELSE 0)
        p2 == ExpEach(p1, IF ~log_prob THEN Nmax ELSE 0)
    IN  Returned(p2, ks, used, FALSE, x)

\* pp = Rcpp::clone(p): the caller's p is left alone
cpp_qpower(p, alpha, beta, lower_tail, log_prob) ==
    LET n == Len(p)
        na == Len(alpha)
        nb == Len(beta)
        Nmax == Max({n, na, nb})
        pp1 == ExpEach(p, IF log_prob THEN n ELSE 0)
        pp == Complement(pp1, IF ~lower_tail THEN n ELSE 0)
        used == [j \in 1..Nmax |->
                    <<At(pp, (j-1) % n), At(alpha, (j-1) % na), At(beta, (j-1) % nb)>>]
        ks == [j \in 1..Nmax |-> invcdf_power(used[j][1], used[j][2], used[j][3])]
    IN  Returned(Vals(ks), ks, used, FALSE, p)

(***************************************************************************)
(* Discrete Weibull distribution                                           *)
(***************************************************************************)
\* shared.h, not among the sources: true of a whole number, no diagnostic
isInteger(x) == Eq(Floor(x), x)

pdf_dweibull(x, q, beta) ==
    IF ISNAN(x) \/ ISNAN(q) \/ ISNAN(beta) THEN Ret(NA_REAL)
    ELSE IF Le(q, Zero) \/ Ge(q, One) \/ Le(beta, Zero) THEN Warn
    ELSE IF ~isInteger(x) \/ Lt(x, Zero) THEN Ret(Zero)
    ELSE Ret(Sub(Pow(q, Pow(x, beta)), Pow(q, Pow(Add(x, One), beta))))

cdf_dweibull(x, q, beta) ==
    IF ISNAN(x) \/ ISNAN(q) \/ ISNAN(beta) THEN Ret(NA_REAL)
    ELSE IF Le(q, Zero) \/ Ge(q, One) \/ Le(beta, Zero) THEN Warn
    ELSE IF Lt(x, Zero) THEN Ret(Zero)
    ELSE Ret(Sub(One, Pow(q, Pow(Add(x, One), beta))))

invcdf_dweibull(p, q, beta) ==
    IF ISNAN(p) \/ ISNAN(q) \/ ISNAN(beta) THEN Ret(NA_REAL)
    ELSE IF Le(q, Zero) \/ Ge(q, One) \/ Le(beta, Zero) \/ Lt(p, Zero) \/ Gt(p, One)
    THEN Warn
    ELSE IF Eq(p, Zero) THEN Ret(Zero)
    ELSE Ret(Ceil(Sub(Pow(Div(Log(Sub(One, p)), Log(q)), Div(One, beta)), One)))

cpp_ddweibull(x, q, beta, log_prob) ==
    LET dims == <<Len(x), Len(q), Len(beta)>>
        Nmax == Max({dims[1], dims[2], dims[3]})
        used == [j \in 1..Nmax |->
                    <<At(x, (j-1) % dims[1]), At(q, (j-1) % dims[2]),
                      At(beta, (j-1) % dims[3])>>]
        ks == [j \in 1..Nmax |-> pdf_dweibull(used[j][1], used[j][2], used[j][3])]
        p == Vals(ks)
    IN  Returned(LogEach(p, IF log_prob THEN Nmax ELSE 0), ks, used, FALSE, x)

cpp_pdweibull(x, q, beta, lower_tail, log_prob) ==
    LET dims == <<Len(x), Len(q), Len(beta)>>
        Nmax == Max({dims[1], dims[2], dims[3]})
        used == [j \in 1..Nmax |->
                    <<At(x, (j-1) % dims[1]), At(q, (j-1) % dims[2]),
                      At(beta, (j-1) % dims[3])>>]
        ks == [j \in 1..Nmax |-> cdf_dweibull(used[j][1], used[j][2], used[j][3])]
        p == Vals(ks)
        p1 == Complement(p, IF ~lower_tail THEN Nmax ELSE 0)
        p2 == LogEach(p1, IF log_prob THEN Nmax ELSE 0)
    IN  Returned(p2, ks, used, FALSE, x)

cpp_qdweibull(p, q, beta, lower_tail, log_prob) ==
    LET dims == <<Len(p), Len(q), Len(beta)>>
        Nmax == Max({dims[1], dims[2], dims[3]})
        pp1 == ExpEach(p, IF log_prob THEN dims[1] ELSE 0)
        pp == Complement(pp1, IF ~lower_tail THEN dims[1] ELSE 0)
        used == [j \in 1..Nmax |->
                    <<At(pp, (j-1) % dims[1]), At(q, (j-1) % dims[2]),
                      At(beta, (j-1) % dims[3])>>]
        ks == [j \in 1..Nmax |-> invcdf_dweibull(used[j][1], used[j][2], used[j][3])]
    IN  Returned(Vals(ks), ks, used, FALSE, p)

(***************************************************************************)
(* Discrete uniform distribution                                           *)
(***************************************************************************)
\* the parameter check shared by the four kernels
dunif_invalid(min, max) ==
    \/ Gt(min, max) \/ isinf(min) \/ isinf(max)
    \/ Ne(Floor(min), min) \/ Ne(Floor(max), max)

\* pmf_dunif without the test of integrality, to try the discrete claims on
pmf_dunif_any_x(x, min, max) ==
    IF ISNAN(x) \/ ISNAN(min) \/ ISNAN(max) THEN Ret(NA_REAL)
    ELSE IF dunif_invalid(min, max) THEN Warn
    ELSE IF Lt(x, min) \/ Gt(x, max) THEN Ret(Zero)
    ELSE Ret(Div(One, Add(Sub(max, min), One)))

pmf_dunif(x, min, max) ==
    IF ISNAN(x) \/ ISNAN(min) \/ ISNAN(max) THEN Ret(NA_REAL)
    ELSE IF dunif_invalid(min, max) THEN Warn
    ELSE IF Lt(x, min) \/ Gt(x, max) \/ ~isInteger(x) THEN Ret(Zero)
    ELSE Ret(Div(One, Add(Sub(max, min), One)))

\* cdf_dunif counting the points below floor(x) only, to try the formula of
\* the cumulative function on
cdf_dunif_below(x, min, max) ==
    IF ISNAN(x) \/ ISNAN(min) \/ ISNAN(max) THEN Ret(NA_REAL)
    ELSE IF dunif_invalid(min, max) THEN Warn
    ELSE IF Lt(x, min) THEN Ret(Zero)
    ELSE IF Ge(x, max) THEN Ret(One)
    ELSE Ret(Div(Sub(Floor(x), min), Add(Sub(max, min), One)))

cdf_dunif(x, min, max) ==
    IF ISNAN(x) \/ ISNAN(min) \/ ISNAN(max) THEN Ret(NA_REAL)
    ELSE IF dunif_invalid(min, max) THEN Warn
    ELSE IF Lt(x, min) THEN Ret(Zero)
    ELSE IF Ge(x, max) THEN Ret(One)
    ELSE Ret(Div(Add(Sub(Floor(x), min), One), Add(Sub(max, min), One)))

\* invcdf_dunif rounding down instead of up
invcdf_dunif_floor(p, min, max) ==
    IF ISNAN(p) \/ ISNAN(min) \/ ISNAN(max) THEN Ret(NA_REAL)
    ELSE IF dunif_invalid(min, max) \/ Lt(p, Zero) \/ Gt(p, One) THEN Warn
    ELSE IF Eq(p, Zero) \/ Eq(min, max) THEN Ret(min)
    ELSE Ret(Floor(Sub(Add(Mul(p, Add(Sub(max, min), One)), min), One)))

invcdf_dunif(p, min, max) ==
    IF ISNAN(p) \/ ISNAN(min) \/ ISNAN(max) THEN Ret(NA_REAL)
    ELSE IF dunif_invalid(min, max) \/ Lt(p, Zero) \/ Gt(p, One) THEN Warn
    ELSE IF Eq(p, Zero) \/ Eq(min, max) THEN Ret(min)
    ELSE Ret(Ceil(Sub(Add(Mul(p, Add(Sub(max, min), One)), min), One)))

cpp_ddunif(x, min, max, log_prob) ==
    LET dims == <<Len(x), Len(min), Len(max)>>
        Nmax == Max({dims[1], dims[2], dims[3]})
        used == [j \in 1..Nmax |->
                    <<At(x, (j-1) % dims[1]), At(min, (j-1) % dims[2]),
                      At(max, (j-1) % dims[3])>>]
        ks == [j \in 1..Nmax |-> pmf_dunif(used[j][1], used[j][2], used[j][3])]
        p == Vals(ks)
    IN  Returned(LogEach(p, IF log_prob THEN Nmax ELSE 0), ks, used, FALSE, x)

cpp_pdunif(x, min, max, lower_tail, log_prob) ==
    LET dims == <<Len(x), Len(min), Len(max)>>
        Nmax == Max({dims[1], dims[2], dims[3]})
        used == [j \in 1..Nmax |->
                    <<At(x, (j-1) % dims[1]), At(min, (j-1) % dims[2]),
                      At(max, (j-1) % dims[3])>>]
        ks == [j \in 1..Nmax |-> cdf_dunif(used[j][1], used[j][2], used[j][3])]
        p == Vals(ks)
        p1 == Complement(p, IF ~lower_tail THEN Nmax ELSE 0)
        p2 == LogEach(p1, IF log_prob THEN Nmax ELSE 0)
    IN  Returned(p2, ks, used, FALSE, x)

cpp_qdunif(p, min, max, lower_tail, log_prob) ==
    LET dims == <<Len(p), Len(min), Len(max)>>
        Nmax == Max({dims[1], dims[2], dims[3]})
        pp1 == ExpEach(p, IF log_prob THEN dims[1] ELSE 0)
        pp == Complement(pp1, IF ~lower_tail THEN dims[1] ELSE 0)
        used == [j \in 1..Nmax |->
                    <<At(pp, (j-1) % dims[1]), At(min, (j-1) % dims[2]),
                      At(max, (j-1) % dims[3])>>]
        ks == [j \in 1..Nmax |-> invcdf_dunif(used[j][1], used[j][2], used[j][3])]
    IN  Returned(Vals(ks), ks, used, FALSE, p)

(***************************************************************************)
(* Gumbel distribution                                                     *)
(***************************************************************************)
pdf_gumbel(x, mu, sigma) ==
    IF ISNAN(x) \/ ISNAN(mu) \/ ISNAN(sigma) THEN Ret(NA_REAL)
    ELSE IF Le(sigma, Zero) THEN Warn
    ELSE IF ~R_FINITE(x) THEN Ret(Zero)
    ELSE LET z == Div(Sub(x, mu), sigma)
         IN  Ret(Div(Exp(Neg(Add(z, Exp(Neg(z))))), sigma))

cdf_gumbel(x, mu, sigma) ==
    IF ISNAN(x) \/ ISNAN(mu) \/ ISNAN(sigma) THEN Ret(NA_REAL)
    ELSE IF Le(sigma, Zero) THEN Warn
    ELSE LET z == Div(Sub(x, mu), sigma)
         IN  Ret(Exp(Neg(Exp(Neg(z)))))

invcdf_gumbel(p, mu, sigma) ==
    IF ISNAN(p) \/ ISNAN(mu) \/ ISNAN(sigma) THEN Ret(NA_REAL)
    ELSE IF Le(sigma, Zero) \/ Lt(p, Zero) \/ Gt(p, One) THEN Warn
    ELSE Ret(Sub(mu, Mul(sigma, Log(Neg(Log(p))))))

cpp_dgumbel(x, mu, sigma, log_prob) ==
    LET n == Len(x)
        nm == Len(mu)
        ns == Len(sigma)
        Nmax == Max({n, nm, ns})
        used == [j \in 1..Nmax |->
                    <<At(x, (j-1) % n), At(mu, (j-1) % nm), At(sigma, (j-1) % ns)>>]
        ks == [j \in 1..Nmax |-> pdf_gumbel(used[j][1], used[j][2], used[j][3])]
        p == Vals(ks)
    IN  Returned(LogEach(p, IF log_prob THEN Nmax ELSE 0), ks, used, FALSE, x)

cpp_pgumbel(x, mu, sigma, lower_tail, log_prob) ==
    LET n == Len(x)
        nm == Len(mu)
        ns == Len(sigma)
        Nmax == Max({n, nm, ns})
        used == [j \in 1..Nmax |->
                    <<At(x, (j-1) % n), At(mu, (j-1) % nm), At(sigma, (j-1) % ns)>>]
        ks == [j \in 1..Nmax |-> cdf_gumbel(used[j][1], used[j][2], used[j][3])]
        p == Vals(ks)
        p1 == Complement(p, IF ~lower_tail THEN Nmax ELSE 0)
        p2 == LogEach(p1, IF log_prob THEN Nmax ELSE 0)
    IN  Returned(p2, ks, used, FALSE, x)

cpp_qgumbel(p, mu, sigma, lower_tail, log_prob) ==
    LET n == Len(p)
        nm == Len(mu)
        ns == Len(sigma)
        Nmax == Max({n, nm, ns})
        pp1 == ExpEach(p, IF log_prob THEN n ELSE 0)
        pp == Complement(pp1, IF ~lower_tail THEN n ELSE 0)
        used == [j \in 1..Nmax |->
                    <<At(pp, (j-1) % n), At(mu, (j-1) % nm), At(sigma, (j-1) % ns)>>]
        ks == [j \in 1..Nmax |-> invcdf_gumbel(used[j][1], used[j][2], used[j][3])]
    IN  Returned(Vals(ks), ks, used, FALSE, p)

(***************************************************************************)
(* Gompertz distribution                                                   *)
(***************************************************************************)
pdf_gompertz(x, a, b) ==
    IF ISNAN(x) \/ ISNAN(a) \/ ISNAN(b) THEN Ret(NA_REAL)
    ELSE IF Le(a, Zero) \/ Le(b, Zero) THEN Warn
    ELSE IF Lt(x, Zero) \/ ~R_FINITE(x) THEN Ret(Zero)
    ELSE Ret(Mul(a, Exp(Sub(Mul(b, x),
                            Mul(Div(a, b), Sub(Exp(Mul(b, x)), One))))))

cdf_gompertz(x, a, b) ==
    IF ISNAN(x) \/ ISNAN(a) \/ ISNAN(b) THEN Ret(NA_REAL)
    ELSE IF Le(a, Zero) \/ Le(b, Zero) THEN Warn
    ELSE IF Lt(x, Zero) THEN Ret(Zero)
    ELSE IF ~R_FINITE(x) THEN Ret(One)
    ELSE Ret(Sub(One, Exp(Mul(Div(Neg(a), b), Sub(Exp(Mul(b, x)), One)))))

invcdf_gompertz(p, a, b) ==
    IF ISNAN(p) \/ ISNAN(a) \/ ISNAN(b) THEN Ret(NA_REAL)
    ELSE IF Le(a, Zero) \/ Le(b, Zero) \/ Lt(p, Zero) \/ Gt(p, One) THEN Warn
    ELSE Ret(Mul(Div(One, b),
                 Log(Sub(One, Mul(Div(b, a), Log(Sub(One, p)))))))

logpdf_gompertz(x, a, b) ==
    IF ISNAN(x) \/ ISNAN(a) \/ ISNAN(b) THEN Ret(NA_REAL)
    ELSE IF Le(a, Zero) \/ Le(b, Zero) THEN Warn
    ELSE IF Lt(x, Zero) \/ ~R_FINITE(x) THEN Ret(R_NegInf)
    ELSE Ret(Add(Log(a), Sub(Mul(b, x),
                             Mul(Div(a, b), Sub(Exp(Mul(b, x)), One)))))

cpp_dgompertz(x, a, b, log_prob) ==
    LET n == Len(x)
        na == Len(a)
        nb == Len(b)
        Nmax == Max({n, na, nb})
        used == [j \in 1..Nmax |->
                    <<At(x, (j-1) % n), At(a, (j-1) % na), At(b, (j-1) % nb)>>]
        ks == [j \in 1..Nmax |-> logpdf_gompertz(used[j][1], used[j][2], used[j][3])]
        p == Vals(ks)
    IN  Returned(ExpEach(p, IF ~log_prob THEN Nmax ELSE 0), ks, used, FALSE, x)

cpp_pgompertz(x, a, b, lower_tail, log_prob) ==
    LET n == Len(x)
        na == Len(a)
        nb == Len(b)
        Nmax == Max({n, na, nb})
        used == [j \in 1..Nmax |->
                    <<At(x, (j-1) % n), At(a, (j-1) % na), At(b, (j-1) % nb)>>]
        ks == [j \in 1..Nmax |-> cdf_gompertz(used[j][1], used[j][2], used[j][3])]
        p == Vals(ks)
        p1 == Complement(p, IF ~lower_tail THEN Nmax ELSE 0)
        p2 == LogEach(p1, IF log_prob THEN Nmax ELSE 0)
    IN  Returned(p2, ks, used, FALSE, x)

cpp_qgompertz(p, a, b, lower_tail, log_prob) ==
    LET n == Len(p)
        na == Len(a)
        nb == Len(b)
        Nmax == Max({n, na, nb})
        pp1 == ExpEach(p, IF log_prob THEN n ELSE 0)
        pp == Complement(pp1, IF ~lower_tail THEN n ELSE 0)
        used == [j \in 1..Nmax |->
                    <<At(pp, (j-1) % n), At(a, (j-1) % na), At(b, (j-1) % nb)>>]
        ks == [j \in 1..Nmax |-> invcdf_gompertz(used[j][1], used[j][2], used[j][3])]
    IN  Returned(Vals(ks), ks, used, FALSE, p)

(***************************************************************************)
(* Truncated normal distribution                                           *)
(***************************************************************************)
\* R::pnorm(z, 0, 1, true, false) at the whole z in -3..3, to three decimals;
\* any other finite z is kept as a term
PhiTable(z) ==
    CASE z = -3 -> Rat(1, 1000)
      [] z = -2 -> Rat(23, 1000)
      [] z = -1 -> Rat(159, 1000)
      [] z = 0 -> Rat(1, 2)
      [] z = 1 -> Rat(841, 1000)
      [] z = 2 -> Rat(977, 1000)
      [] z = 3 -> Rat(999, 1000)

Phi(x) ==
    CASE ISNAN(x) -> x
      [] x.k = "Inf" -> One
      [] x.k = "-Inf" -> Zero
      [] IsIntVal(x) /\ x.n \in -3..3 -> PhiTable(x.n)
      [] OTHER -> Sym("Phi", <<x>>)

\* R::qnorm(x, 0, 1, true, false): the inverse of Phi
InvPhi(x) ==
    CASE ISNAN(x) -> x
      [] x.k = "Phi" -> x.a[1]
      [] IsSym(x) -> Sym("InvPhi", <<x>>)
      [] Lt(x, Zero) \/ Gt(x, One) -> NAN
      [] x = Zero -> R_NegInf
      [] x = One -> R_PosInf
      [] \E z \in -3..3 : PhiTable(z) = x ->
            Whole(CHOOSE z \in -3..3 : PhiTable(z) = x)
      [] OTHER -> Sym("InvPhi", <<x>>)

M_PI == Sym("pi", <<>>)
pisq == Sym("sqrt", <<Mul(Whole(2), M_PI)>>)

pdf_tnorm(x, mu, sigma, a, b) ==
    IF Gt(x, a) /\ Lt(x, b)
    THEN LET Phi_a == Phi(Div(Sub(a, mu), sigma))
             Phi_b == Phi(Div(Sub(b, mu), sigma))
         IN  Div(Exp(Div(Neg(Pow(Sub(x, mu), Whole(2))),
                         Mul(Whole(2), Pow(sigma, Whole(2))))),
                 Mul(Mul(pisq, sigma), Sub(Phi_b, Phi_a)))
    ELSE Zero

cdf_tnorm(x, mu, sigma, a, b) ==
    IF Gt(x, a) /\ Lt(x, b)
    THEN LET Phi_x == Phi(Div(Sub(x, mu), sigma))
             Phi_a == Phi(Div(Sub(a, mu), sigma))
             Phi_b == Phi(Div(Sub(b, mu), sigma))
         IN  Div(Sub(Phi_x, Phi_a), Sub(Phi_b, Phi_a))
    ELSE Zero

invcdf_tnorm(p, mu, sigma, a, b) ==
    LET Phi_a == Phi(Div(Sub(a, mu), sigma))
        Phi_b == Phi(Div(Sub(b, mu), sigma))
    IN  InvPhi(Add(Phi_a, Mul(p, Sub(Phi_b, Phi_a))))

\* an access past the end of a vector during a truncated-normal call: the
\* up-front any(b < a) reads a[j] for every j below the length of b; the loop
\* runs to Nmax over a result of n elements and reads a and b at indices
\* reduced by the lengths of mu and sigma
tnorm_oob(n, Nmax, na, nb, a, b) ==
    \/ Len(b) > Len(a)
    \/ Nmax > n
    \/ \E c \in 0..(Nmax - 1) : c % na >= Len(a) \/ c % nb >= Len(b)

\* na and nb are set from mu and sigma; the result has the length of x
cpp_dtnorm(x, mu, sigma, a, b, log_prob) ==
    IF AnyLess(b, a) \/ AnyLe0(sigma)
    THEN [Thrown(x) EXCEPT !.oob = Len(b) > Len(a)]
    ELSE
    LET n == Len(x)
        nm == Len(mu)
        ns == Len(sigma)
        na == Len(mu)
        nb == Len(sigma)
        Nmax == Max({n, nm, ns, na, nb})
        used == [j \in 1..Nmax |->
                    <<At(x, (j-1) % n), At(mu, (j-1) % nm), At(sigma, (j-1) % ns),
                      At(a, (j-1) % na), At(b, (j-1) % nb)>>]
        ks == [j \in 1..Nmax |->
                  Ret(pdf_tnorm(used[j][1], used[j][2], used[j][3], used[j][4],
                                used[j][5]))]
        p == SubSeq(Vals(ks), 1, n)
        oob == tnorm_oob(n, Nmax, na, nb, a, b)
    IN  Returned(LogEach(p, IF log_prob THEN n ELSE 0), ks, used, oob, x)

cpp_ptnorm(x, mu, sigma, a, b, lower_tail, log_prob) ==
    IF AnyLess(b, a) \/ AnyLe0(sigma)
    THEN [Thrown(x) EXCEPT !.oob = Len(b) > Len(a)]
    ELSE
    LET n == Len(x)
        nm == Len(mu)
        ns == Len(sigma)
        na == Len(mu)
        nb == Len(sigma)
        Nmax == Max({n, nm, ns, na, nb})
        used == [j \in 1..Nmax |->
                    <<At(x, (j-1) % n), At(mu, (j-1) % nm), At(sigma, (j-1) % ns),
                      At(a, (j-1) % na), At(b, (j-1) % nb)>>]
        ks == [j \in 1..Nmax |->
                  Ret(cdf_tnorm(used[j][1], used[j][2], used[j][3], used[j][4],
                                used[j][5]))]
        p == SubSeq(Vals(ks), 1, n)
        p1 == Complement(p, IF ~lower_tail THEN Nmax ELSE 0)
        p2 == LogEach(p1, IF log_prob THEN Nmax ELSE 0)
        oob == tnorm_oob(n, Nmax, na, nb, a, b)
    IN  Returned(p2, ks, used, oob, x)

\* q is filled by cdf_tnorm; the tail and log adjustments are made to p,
\* the caller's vector, after q is computed
cpp_qtnorm(p, mu, sigma, a, b, lower_tail, log_prob) ==
    IF AnyLt0(p) \/ AnyGt1(p) THEN Thrown(p)
    ELSE IF AnyLess(b, a) \/ AnyLe0(sigma)
    THEN [Thrown(p) EXCEPT !.oob = Len(b) > Len(a)]
    ELSE
    LET n == Len(p)
        nm == Len(mu)
        ns == Len(sigma)
        na == Len(mu)
        nb == Len(sigma)
        Nmax == Max({n, nm, ns, na, nb})
        used == [j \in 1..Nmax |->
                    <<At(p, (j-1) % n), At(mu, (j-1) % nm), At(sigma, (j-1) % ns),
                      At(a, (j-1) % na), At(b, (j-1) % nb)>>]
        ks == [j \in 1..Nmax |->
                  Ret(cdf_tnorm(used[j][1], used[j][2], used[j][3], used[j][4],
                                used[j][5]))]
        q == SubSeq(Vals(ks), 1, n)
        p1 == Complement(p, IF ~lower_tail THEN Nmax ELSE 0)
        p2 == LogEach(p1, IF log_prob THEN Nmax ELSE 0)
        oob == tnorm_oob(n, Nmax, na, nb, a, b)
    IN  Returned(q, ks, used, oob, p2)

(***************************************************************************)
(* Mixture of normal distributions                                         *)
(***************************************************************************)
\* R::dnorm(z, 0, 1, false) at the whole z in -3..3, to three decimals
phiTable(z) ==
    CASE z = 0 -> Rat(399, 1000)
      [] z \in {-1, 1} -> Rat(242, 1000)
      [] z \in {-2, 2} -> Rat(54, 1000)
      [] z \in {-3, 3} -> Rat(4, 1000)

\* R::dnorm(x, mu, sigma, false)
dnorm(x, mu, sigma) ==
    IF ISNAN(x) \/ ISNAN(mu) \/ ISNAN(sigma) THEN Add(Add(x, mu), sigma)
    ELSE IF Lt(sigma, Zero) THEN NAN
    ELSE IF ~R_FINITE(sigma) THEN Zero
    ELSE IF ~R_FINITE(x) /\ Eq(mu, x) THEN NAN
    ELSE IF Eq(sigma, Zero) THEN (IF Eq(x, mu) THEN R_PosInf ELSE Zero)
    ELSE LET z == Div(Sub(x, mu), sigma)
         IN  IF ~R_FINITE(z) THEN Zero
             ELSE IF IsIntVal(z) /\ z.n \in -3..3 THEN Div(phiTable(z.n), sigma)
             ELSE Div(Sym("phi", <<z>>), sigma)

\* R::pnorm(x, mu, sigma, lower_tail, false)
pnorm(x, mu, sigma, lower_tail) ==
    IF ISNAN(x) \/ ISNAN(mu) \/ ISNAN(sigma) THEN Add(Add(x, mu), sigma)
    ELSE IF ~R_FINITE(x) /\ Eq(mu, x) THEN NAN
    ELSE IF Lt(sigma, Zero) THEN NAN
    ELSE LET z == Div(Sub(x, mu), sigma)
             lower == IF Eq(sigma, Zero) \/ ~R_FINITE(z)
                      THEN (IF Lt(x, mu) THEN Zero ELSE One)
                      ELSE Phi(z)
         IN  IF lower_tail THEN lower ELSE Sub(One, lower)

\* R::rnorm(mu, sigma): a draw from N(mu, sigma), kept as a term
rnorm(mu, sigma) ==
    IF ISNAN(mu) \/ ~R_FINITE(sigma) \/ Lt(sigma, Zero) THEN NAN
    ELSE IF Eq(sigma, Zero) \/ ~R_FINITE(mu) THEN mu
    ELSE Sym("rnorm", <<mu, sigma>>)

nrow(M) == Len(M)
ncol(M) == Len(M[1])
\* M(r, c) for C indices r and c
Cell(M, r, c) == M[r + 1][c + 1]

\* the validation loop over the components j of row i: it stops at the first
\* component that is missing or wrong, and sums the weights before it.
\* sigma_zero_wrong: the test on sigma is "<= 0.0"; it is "< 0.0" otherwise
RECURSIVE mixnorm_scan(_, _, _, _, _, _, _)
mixnorm_scan(r, j, mu, sigma, alpha, sigma_zero_wrong, alpha_tot) ==
    IF j >= ncol(alpha)
    THEN [missings |-> FALSE, wrong_param |-> FALSE, alpha_tot |-> alpha_tot]
    ELSE LET al == Cell(alpha, r % nrow(alpha), j)
             m == Cell(mu, r % nrow(mu), j)
             sg == Cell(sigma, r % nrow(sigma), j)
         IN  IF ISNAN(al) \/ ISNAN(m) \/ ISNAN(sg)
             THEN [missings |-> TRUE, wrong_param |-> FALSE, alpha_tot |-> alpha_tot]
             ELSE IF Lt(al, Zero)
                     \/ (IF sigma_zero_wrong THEN Le(sg, Zero) ELSE Lt(sg, Zero))
             THEN [missings |-> FALSE, wrong_param |-> TRUE, alpha_tot |-> alpha_tot]
             ELSE mixnorm_scan(r, j + 1, mu, sigma, alpha, sigma_zero_wrong,
                               Add(alpha_tot, al))

\* the sum with the weights left as they are, not divided by their total
RECURSIVE mixnorm_sum_raw(_, _, _, _, _)
mixnorm_sum_raw(r, j, alpha, alpha_tot, term) ==
    IF j >= ncol(alpha) THEN Zero
    ELSE Add(Mul(Cell(alpha, r % nrow(alpha), j), term[j + 1]),
             mixnorm_sum_raw(r, j + 1, alpha, alpha_tot, term))

\* sum over the components j..k-1 of (alpha_j / alpha_tot) * term(j)
RECURSIVE mixnorm_sum(_, _, _, _, _)
mixnorm_sum(r, j, alpha, alpha_tot, term) ==
    IF j >= ncol(alpha) THEN Zero
    ELSE Add(Mul(Div(Cell(alpha, r % nrow(alpha), j), alpha_tot), term[j + 1]),
             mixnorm_sum(r, j + 1, alpha, alpha_tot, term))

\* one iteration of the loop of cpp_dmixnorm: p[i], with its diagnostic.
\* x is read at i, not at i % n
dmixnorm_elem(r, x, mu, sigma, alpha) ==
    LET sc == mixnorm_scan(r, 0, mu, sigma, alpha, TRUE, Zero)
        xi == At(x, r)
    IN  IF sc.missings \/ ISNAN(xi) THEN Ret(NA_REAL)
        ELSE IF sc.wrong_param THEN Warn
        ELSE Ret(mixnorm_sum(r, 0, alpha, sc.alpha_tot,
                 [j \in 1..ncol(alpha) |->
                     dnorm(xi, Cell(mu, r % nrow(mu), j - 1),
                           Cell(sigma, r % nrow(sigma), j - 1))]))

\* one iteration of the loop of cpp_pmixnorm: lower_tail is handed to pnorm
pmixnorm_elem(r, x, mu, sigma, alpha, lower_tail) ==
    LET sc == mixnorm_scan(r, 0, mu, sigma, alpha, FALSE, Zero)
        xi == At(x, r)
    IN  IF sc.missings \/ ISNAN(xi) THEN Ret(NA_REAL)
        ELSE IF sc.wrong_param THEN Warn
        ELSE Ret(mixnorm_sum(r, 0, alpha, sc.alpha_tot,
                 [j \in 1..ncol(alpha) |->
                     pnorm(xi, Cell(mu, r % nrow(mu), j - 1),
                           Cell(sigma, r % nrow(sigma), j - 1), lower_tail)]))

\* the backward walk stopping at u >= p_tmp instead of u > p_tmp
RECURSIVE rmixnorm_pick_ge(_, _, _, _, _, _)
rmixnorm_pick_ge(r, j, alpha, alpha_tot, u, p_tmp) ==
    IF j < 0 THEN 0
    ELSE LET t == Sub(p_tmp, Div(Cell(alpha, r % nrow(alpha), j), alpha_tot))
         IN  IF Ge(u, t) THEN j
             ELSE rmixnorm_pick_ge(r, j - 1, alpha, alpha_tot, u, t)

\* the backward walk of cpp_rmixnorm over the components j, j-1, .., 0 with the
\* running total p_tmp: the first j with u > p_tmp, and 0 when there is none
RECURSIVE rmixnorm_pick(_, _, _, _, _, _)
rmixnorm_pick(r, j, alpha, alpha_tot, u, p_tmp) ==
    IF j < 0 THEN 0
    ELSE LET t == Sub(p_tmp, Div(Cell(alpha, r % nrow(alpha), j), alpha_tot))
         IN  IF Gt(u, t) THEN j
             ELSE rmixnorm_pick(r, j - 1, alpha, alpha_tot, u, t)

\* one iteration of the loop of cpp_rmixnorm, given the uniform draw u;
\* x[i] is the freshly allocated result element, 0
rmixnorm_elem(r, mu, sigma, alpha, u) ==
    LET sc == mixnorm_scan(r, 0, mu, sigma, alpha, FALSE, Zero)
        jj == rmixnorm_pick(r, ncol(alpha) - 1, alpha, sc.alpha_tot, u, One)
    IN  IF sc.missings \/ ISNAN(Zero) THEN Ret(NA_REAL)
        ELSE IF sc.wrong_param THEN Warn
        ELSE Ret(rnorm(Cell(mu, r % nrow(mu), jj), Cell(sigma, r % nrow(sigma), jj)))

\* the operands of iteration i: x[i] and the three recycled rows
mixnorm_used(r, x, mu, sigma, alpha) ==
    <<At(x, r), mu[(r % nrow(mu)) + 1], sigma[(r % nrow(sigma)) + 1],
      alpha[(r % nrow(alpha)) + 1]>>

\* the check of the column counts with sigma left out, to try the claim of
\* the fatal mismatch on
mixnorm_mismatch_mu_only(mu, sigma, alpha) == ncol(alpha) # ncol(mu)

\* if (k != mu.ncol() || k != sigma.ncol()) Rcpp::stop(...)
mixnorm_mismatch(mu, sigma, alpha) ==
    ncol(alpha) # ncol(mu) \/ ncol(alpha) # ncol(sigma)

\* the whole call of cpp_dmixnorm
cpp_dmixnorm(x, mu, sigma, alpha, log_prob) ==
    IF mixnorm_mismatch(mu, sigma, alpha) THEN Thrown(x)
    ELSE
    LET Nmax == Max({Len(x), nrow(mu), nrow(sigma), nrow(alpha)})
        ks == [j \in 1..Nmax |-> dmixnorm_elem(j - 1, x, mu, sigma, alpha)]
        used == [j \in 1..Nmax |-> mixnorm_used(j - 1, x, mu, sigma, alpha)]
        p == Vals(ks)
    IN  Returned(LogEach(p, IF log_prob THEN Nmax ELSE 0), ks, used,
                 Nmax > Len(x), x)

\* the whole call of cpp_pmixnorm: the complement is taken again after the loop
cpp_pmixnorm(x, mu, sigma, alpha, lower_tail, log_prob) ==
    IF mixnorm_mismatch(mu, sigma, alpha) THEN Thrown(x)
    ELSE
    LET Nmax == Max({Len(x), nrow(mu), nrow(sigma), nrow(alpha)})
        ks == [j \in 1..Nmax |-> pmixnorm_elem(j - 1, x, mu, sigma, alpha, lower_tail)]
        used == [j \in 1..Nmax |-> mixnorm_used(j - 1, x, mu, sigma, alpha)]
        p == Vals(ks)
        p1 == Complement(p, IF ~lower_tail THEN Nmax ELSE 0)
        p2 == LogEach(p1, IF log_prob THEN Nmax ELSE 0)
    IN  Returned(p2, ks, used, Nmax > Len(x), x)

(***************************************************************************)
(* The exported functions                                                  *)
(***************************************************************************)
Fns ==
    {[f |-> "cpp_dlomax", kind |-> "d", dist |-> "lomax"],
     [f |-> "cpp_plomax", kind |-> "p", dist |-> "lomax"],
     [f |-> "cpp_qlomax", kind |-> "q", dist |-> "lomax"],
     [f |-> "cpp_dkumar", kind |-> "d", dist |-> "kumar"],
     [f |-> "cpp_pkumar", kind |-> "p", dist |-> "kumar"],
     [f |-> "cpp_qkumar", kind |-> "q", dist |-> "kumar"],
     [f |-> "cpp_dpower_part000", kind |-> "d", dist |-> "power_part000"],
     [f |-> "cpp_ppower_part000", kind |-> "p", dist |-> "power_part000"],
     [f |-> "cpp_qpower_part000", kind |-> "q", dist |-> "power_part000"],
     [f |-> "cpp_dpower", kind |-> "d", dist |-> "power"],
     [f |-> "cpp_ppower", kind |-> "p", dist |-> "power"],
     [f |-> "cpp_qpower", kind |-> "q", dist |-> "power"],
     [f |-> "cpp_ddweibull", kind |-> "d", dist |-> "dweibull"],
     [f |-> "cpp_pdweibull", kind |-> "p", dist |-> "dweibull"],
     [f |-> "cpp_qdweibull", kind |-> "q", dist |-> "dweibull"],
     [f |-> "cpp_ddunif", kind |-> "d", dist |-> "dunif"],
     [f |-> "cpp_pdunif", kind |-> "p", dist |-> "dunif"],
     [f |-> "cpp_qdunif", kind |-> "q", dist |-> "dunif"],
     [f |-> "cpp_rdunif", kind |-> "r", dist |-> "dunif"],
     [f |-> "cpp_dgumbel", kind |-> "d", dist |-> "gumbel"],
     [f |-> "cpp_pgumbel", kind |-> "p", dist |-> "gumbel"],
     [f |-> "cpp_qgumbel", kind |-> "q", dist |-> "gumbel"],
     [f |-> "cpp_dgompertz", kind |-> "d", dist |-> "gompertz"],
     [f |-> "cpp_pgompertz", kind |-> "p", dist |-> "gompertz"],
     [f |-> "cpp_qgompertz", kind |-> "q", dist |-> "gompertz"],
     [f |-> "cpp_dtnorm", kind |-> "d", dist |-> "tnorm"],
     [f |-> "cpp_ptnorm", kind |-> "p", dist |-> "tnorm"],
     [f |-> "cpp_qtnorm", kind |-> "q", dist |-> "tnorm"],
     [f |-> "cpp_rtnorm", kind |-> "r", dist |-> "tnorm"],
     [f |-> "cpp_dmixnorm", kind |-> "d", dist |-> "mixnorm"],
     [f |-> "cpp_pmixnorm", kind |-> "p", dist |-> "mixnorm"],
     [f |-> "cpp_rmixnorm", kind |-> "r", dist |-> "mixnorm"]}

Kind(f) == (CHOOSE e \in Fns : e.f = f).kind
Dist(f) == (CHOOSE e \in Fns : e.f = f).dist
VecFns == {e.f : e \in {e \in Fns : e.dist # "mixnorm" /\ e.kind # "r"}}
SampleFns == {"cpp_rtnorm", "cpp_rdunif"}
MixFns == {"cpp_dmixnorm", "cpp_pmixnorm", "cpp_rmixnorm"}

NoRes ==
    [status |-> "none", val |-> <<>>, warn |-> 0, used |-> <<>>, oob |-> FALSE,
     arg1 |-> <<>>]

\* a call of a vector function, from entry to return.  A call that reads or
\* writes past the end of a vector may also end in a crash
Call(f, r) ==
    /\ pc = "ready"
    /\ fn = f
    /\ \/ /\ res' = r
          /\ pc' = IF r.status = "error" THEN "error" ELSE "done"
       \/ /\ r.oob
          /\ res' = [NoRes EXCEPT !.status = "crash", !.oob = TRUE]
          /\ pc' = "crash"
    /\ UNCHANGED <<fn, arg_x, arg_th, arg_lt, arg_lg, arg_n, junk, idx, u_seq>>

call_cpp_dlomax ==
    Call("cpp_dlomax", cpp_dlomax(arg_x, arg_th[1], arg_th[2], arg_lg))
call_cpp_plomax ==
    Call("cpp_plomax", cpp_plomax(arg_x, arg_th[1], arg_th[2], arg_lt, arg_lg))
call_cpp_qlomax ==
    Call("cpp_qlomax", cpp_qlomax(arg_x, arg_th[1], arg_th[2], arg_lt, arg_lg))
call_cpp_dkumar ==
    Call("cpp_dkumar", cpp_dkumar(arg_x, arg_th[1], arg_th[2], arg_lg))
call_cpp_pkumar ==
    Call("cpp_pkumar", cpp_pkumar(arg_x, arg_th[1], arg_th[2], arg_lt, arg_lg))
call_cpp_qkumar ==
    Call("cpp_qkumar", cpp_qkumar(arg_x, arg_th[1], arg_th[2], arg_lt, arg_lg))
call_cpp_dpower_part000 ==
    Call("cpp_dpower_part000", cpp_dpower_part000(arg_x, arg_th[1], arg_th[2], arg_lg))
call_cpp_ppower_part000 ==
    Call("cpp_ppower_part000", cpp_ppower_part000(arg_x, arg_th[1], arg_th[2], arg_lt, arg_lg))
call_cpp_qpower_part000 ==
    Call("cpp_qpower_part000", cpp_qpower_part000(arg_x, arg_th[1], arg_th[2], arg_lt, arg_lg))
call_cpp_dpower ==
    Call("cpp_dpower", cpp_dpower(arg_x, arg_th[1], arg_th[2], arg_lg))
call_cpp_ppower ==
    Call("cpp_ppower", cpp_ppower(arg_x, arg_th[1], arg_th[2], arg_lt, arg_lg))
call_cpp_qpower ==
    Call("cpp_qpower", cpp_qpower(arg_x, arg_th[1], arg_th[2], arg_lt, arg_lg))
call_cpp_ddweibull ==
    Call("cpp_ddweibull", cpp_ddweibull(arg_x, arg_th[1], arg_th[2], arg_lg))
call_cpp_pdweibull ==
    Call("cpp_pdweibull", cpp_pdweibull(arg_x, arg_th[1], arg_th[2], arg_lt, arg_lg))
call_cpp_qdweibull ==
    Call("cpp_qdweibull", cpp_qdweibull(arg_x, arg_th[1], arg_th[2], arg_lt, arg_lg))
call_cpp_ddunif ==
    Call("cpp_ddunif", cpp_ddunif(arg_x, arg_th[1], arg_th[2], arg_lg))
call_cpp_pdunif ==
    Call("cpp_pdunif", cpp_pdunif(arg_x, arg_th[1], arg_th[2], arg_lt, arg_lg))
call_cpp_qdunif ==
    Call("cpp_qdunif", cpp_qdunif(arg_x, arg_th[1], arg_th[2], arg_lt, arg_lg))
call_cpp_dgumbel ==
    Call("cpp_dgumbel", cpp_dgumbel(arg_x, arg_th[1], arg_th[2], arg_lg))
call_cpp_pgumbel ==
    Call("cpp_pgumbel", cpp_pgumbel(arg_x, arg_th[1], arg_th[2], arg_lt, arg_lg))
call_cpp_qgumbel ==
    Call("cpp_qgumbel", cpp_qgumbel(arg_x, arg_th[1], arg_th[2], arg_lt, arg_lg))
call_cpp_dgompertz ==
    Call("cpp_dgompertz", cpp_dgompertz(arg_x, arg_th[1], arg_th[2], arg_lg))
call_cpp_pgompertz ==
    Call("cpp_pgompertz", cpp_pgompertz(arg_x, arg_th[1], arg_th[2], arg_lt, arg_lg))
call_cpp_qgompertz ==
    Call("cpp_qgompertz", cpp_qgompertz(arg_x, arg_th[1], arg_th[2], arg_lt, arg_lg))
call_cpp_dtnorm ==
    Call("cpp_dtnorm", cpp_dtnorm(arg_x, arg_th[1], arg_th[2], arg_th[3], arg_th[4], arg_lg))
call_cpp_ptnorm ==
    Call("cpp_ptnorm", cpp_ptnorm(arg_x, arg_th[1], arg_th[2], arg_th[3], arg_th[4], arg_lt, arg_lg))
call_cpp_qtnorm ==
    Call("cpp_qtnorm", cpp_qtnorm(arg_x, arg_th[1], arg_th[2], arg_th[3], arg_th[4], arg_lt, arg_lg))

(***************************************************************************)
(* The mixture functions, step by step: entry (allocation and the check of *)
(* the column counts), one action per loop iteration, and the return       *)
(***************************************************************************)
Running(len) ==
    [status |-> "running", val |-> Alloc(len), warn |-> 0, used |-> <<>>,
     oob |-> FALSE, arg1 |-> arg_x]

mu_ == arg_th[1]
sigma_ == arg_th[2]
alpha_ == arg_th[3]

mixnorm_Nmax == Max({Len(arg_x), nrow(mu_), nrow(sigma_), nrow(alpha_)})

\* lines 30-39, 93-102, 158-165: the sizes, the result vector, the check
mixnorm_begin(f, len) ==
    /\ pc = "ready"
    /\ fn = f
    /\ IF mixnorm_mismatch(mu_, sigma_, alpha_)
       THEN pc' = "error" /\ res' = Thrown(arg_x)
       ELSE pc' = "loop" /\ res' = Running(len)
    /\ idx' = 0
    /\ UNCHANGED <<fn, arg_x, arg_th, arg_lt, arg_lg, arg_n, junk, u_seq>>

\* what one iteration leaves: element idx, its diagnostic, its operands
mixnorm_step(e) ==
    /\ res' = [res EXCEPT !.val[idx + 1] = e.v,
                          !.warn = @ + e.w,
                          !.used = Append(@, mixnorm_used(idx, arg_x, mu_, sigma_, alpha_))]
    /\ idx' = idx + 1

cpp_dmixnorm_begin == mixnorm_begin("cpp_dmixnorm", mixnorm_Nmax)

cpp_dmixnorm_iter ==
    /\ pc = "loop"
    /\ fn = "cpp_dmixnorm"
    /\ idx < Len(res.val)
    /\ \/ /\ mixnorm_step(dmixnorm_elem(idx, arg_x, mu_, sigma_, alpha_))
          /\ pc' = "loop"
          /\ UNCHANGED <<fn, arg_x, arg_th, arg_lt, arg_lg, arg_n, junk, u_seq>>
       \/ /\ idx >= Len(arg_x)
          /\ res' = [NoRes EXCEPT !.status = "crash", !.oob = TRUE]
          /\ pc' = "crash"
          /\ UNCHANGED <<fn, arg_x, arg_th, arg_lt, arg_lg, arg_n, junk, idx, u_seq>>

cpp_dmixnorm_return ==
    /\ pc = "loop"
    /\ fn = "cpp_dmixnorm"
    /\ idx = Len(res.val)
    /\ res' = [res EXCEPT !.status = "ok",
                          !.val = IF arg_lg THEN LogEach(@, Len(@)) ELSE @,
                          !.oob = Len(res.val) > Len(arg_x)]
    /\ pc' = "done"
    /\ UNCHANGED <<fn, arg_x, arg_th, arg_lt, arg_lg, arg_n, junk, idx, u_seq>>

cpp_pmixnorm_begin == mixnorm_begin("cpp_pmixnorm", mixnorm_Nmax)

cpp_pmixnorm_iter ==
    /\ pc = "loop"
    /\ fn = "cpp_pmixnorm"
    /\ idx < Len(res.val)
    /\ \/ /\ mixnorm_step(pmixnorm_elem(idx, arg_x, mu_, sigma_, alpha_, arg_lt))
          /\ pc' = "loop"
          /\ UNCHANGED <<fn, arg_x, arg_th, arg_lt, arg_lg, arg_n, junk, u_seq>>
       \/ /\ idx >= Len(arg_x)
          /\ res' = [NoRes EXCEPT !.status = "crash", !.oob = TRUE]
          /\ pc' = "crash"
          /\ UNCHANGED <<fn, arg_x, arg_th, arg_lt, arg_lg, arg_n, junk, idx, u_seq>>

cpp_pmixnorm_return ==
    /\ pc = "loop"
    /\ fn = "cpp_pmixnorm"
    /\ idx = Len(res.val)
    /\ LET p1 == IF ~arg_lt THEN Complement(res.val, Len(res.val)) ELSE res.val
           p2 == IF arg_lg THEN LogEach(p1, Len(p1)) ELSE p1
       IN  res' = [res EXCEPT !.status = "ok", !.val = p2,
                              !.oob = Len(res.val) > Len(arg_x)]
    /\ pc' = "done"
    /\ UNCHANGED <<fn, arg_x, arg_th, arg_lt, arg_lg, arg_n, junk, idx, u_seq>>

\* rng_unif() of shared.h, not among the sources: a uniform draw in [0, 1),
\* here one of the multiples of 1/UDen
UDen == 4
rng_unif == {Rat(c, UDen) : c \in 0..(UDen - 1)}

cpp_rmixnorm_begin == mixnorm_begin("cpp_rmixnorm", arg_n)

\* u is drawn at the top of every iteration, before the row is looked at
cpp_rmixnorm_iter ==
    /\ pc = "loop"
    /\ fn = "cpp_rmixnorm"
    /\ idx < Len(res.val)
    /\ \E u \in rng_unif :
          /\ u_seq' = Append(u_seq, u)
          /\ mixnorm_step(rmixnorm_elem(idx, mu_, sigma_, alpha_, u))
    /\ pc' = "loop"
    /\ UNCHANGED <<fn, arg_x, arg_th, arg_lt, arg_lg, arg_n, junk>>

cpp_rmixnorm_return ==
    /\ pc = "loop"
    /\ fn = "cpp_rmixnorm"
    /\ idx = Len(res.val)
    /\ res' = [res EXCEPT !.status = "ok"]
    /\ pc' = "done"
    /\ UNCHANGED <<fn, arg_x, arg_th, arg_lt, arg_lg, arg_n, junk, idx, u_seq>>

(***************************************************************************)
(* The samplers cpp_rtnorm and cpp_rdunif, step by step                    *)
(***************************************************************************)
\* R::runif(a, b): a + (b - a) * u for a draw u of the uniform generator of
\* the specification, a value of [0, 1); NaN when an end is not finite or
\* b < a, a when a = b
runif(a, b) ==
    IF ~R_FINITE(a) \/ ~R_FINITE(b) \/ Lt(b, a) THEN {NAN}
    ELSE IF Eq(a, b) THEN {a}
    ELSE {Add(a, Mul(Sub(b, a), u)) : u \in rng_unif}

\* R::rnorm(0, 1): any real number can be drawn; here -1, 0, 1 and a point
\* strictly between za and zb when there is one
rnorm01(za, zb) ==
    {Whole(-1), Zero, One} \cup
    (IF ISNAN(za) \/ ISNAN(zb) \/ ~Lt(za, zb) THEN {}
     ELSE IF IsNum(za) /\ IsNum(zb) THEN {Div(Add(za, zb), Whole(2))}
     ELSE IF IsNum(za) THEN {Add(za, One)}
     ELSE IF IsNum(zb) THEN {Sub(zb, One)}
     ELSE {Zero})

\* za = (a-mu)/sigma and zb = (b-mu)/sigma
tnorm_za(mu, sigma, a) == Div(Sub(a, mu), sigma)
tnorm_zb(mu, sigma, b) == Div(Sub(b, mu), sigma)

\* which of the four loops of rng_tnorm runs
rng_tnorm_loop(za, zb) ==
    IF Lt(Sub(zb, za), pisq)
    THEN (IF Lt(Zero, za) THEN "above"
          ELSE IF Lt(zb, Zero) THEN "below" ELSE "around")
    ELSE "normal"

\* the exponent q of the acceptance bound exp(q) of the three uniform loops
rng_tnorm_exponent(loop, za, zb, r) ==
    CASE loop = "above" -> Div(Sub(Pow(za, Whole(2)), Pow(r, Whole(2))), Whole(2))
      [] loop = "below" -> Div(Sub(Pow(zb, Whole(2)), Pow(r, Whole(2))), Whole(2))
      [] loop = "around" -> Div(Neg(Pow(r, Whole(2))), Whole(2))

\* the values stop = (u <= exp(q)) takes over the draws u = R::runif(0, 1):
\* true for a small enough u unless q is NaN, false for a large enough u
\* when exp(q) < 1, and for every u when q is NaN
ratio_test(q) ==
    (IF ISNAN(q) THEN {} ELSE {TRUE})
    \cup (IF ISNAN(q) \/ Lt(q, Zero) THEN {FALSE} ELSE {})

\* the operands of the element being drawn, and its bounds
rtnorm_ops == res.used[idx + 1]
rtnorm_za == tnorm_za(rtnorm_ops[1], rtnorm_ops[2], rtnorm_ops[3])
rtnorm_zb == tnorm_zb(rtnorm_ops[1], rtnorm_ops[2], rtnorm_ops[4])

\* the most rejected candidates of one element that are followed
MaxTries == 2

\* lines 215-224: the two checks, the sizes, the result vector
cpp_rtnorm_begin ==
    /\ pc = "ready"
    /\ fn = "cpp_rtnorm"
    /\ IF AnyLess(arg_th[4], arg_th[3]) \/ AnyLe0(arg_th[2])
       THEN /\ pc' = "error"
            /\ res' = [Thrown(arg_x) EXCEPT
                           !.oob = Len(arg_th[4]) > Len(arg_th[3])]
       ELSE /\ pc' = "loop"
            /\ res' = [Running(arg_n) EXCEPT
                           !.oob = Len(arg_th[4]) > Len(arg_th[3])]
    /\ idx' = 0
    /\ UNCHANGED <<fn, arg_x, arg_th, arg_lt, arg_lg, arg_n, junk, u_seq>>

\* lines 226-227 and 76-77: the operands of element idx are read, a and b
\* at indices reduced by the lengths of mu and sigma, and rng_tnorm is entered
cpp_rtnorm_iter ==
    /\ pc = "loop"
    /\ fn = "cpp_rtnorm"
    /\ idx < arg_n
    /\ LET nm == Len(arg_th[1])
           ns == Len(arg_th[2])
           na == Len(arg_th[1])
           nb == Len(arg_th[2])
           ops == <<At(arg_th[1], idx % nm), At(arg_th[2], idx % ns),
                    At(arg_th[3], idx % na), At(arg_th[4], idx % nb)>>
           out == idx % na >= Len(arg_th[3]) \/ idx % nb >= Len(arg_th[4])
       IN  \/ /\ res' = [res EXCEPT !.used = Append(@, ops), !.oob = @ \/ out]
              /\ pc' = "reject"
              /\ UNCHANGED <<fn, arg_x, arg_th, arg_lt, arg_lg, arg_n, junk, idx, u_seq>>
           \/ /\ out
              /\ res' = [NoRes EXCEPT !.status = "crash", !.oob = TRUE]
              /\ pc' = "crash"
              /\ UNCHANGED <<fn, arg_x, arg_th, arg_lt, arg_lg, arg_n, junk, idx, u_seq>>

\* the end of one pass of a rejection loop with the candidate r: the element
\* is mu + sigma*r when stop is set, and the loop goes round again otherwise
rng_tnorm_next(stop, r) ==
    /\ IF stop
       THEN /\ res' = [res EXCEPT !.val[idx + 1] =
                          Add(rtnorm_ops[1], Mul(rtnorm_ops[2], r))]
            /\ idx' = idx + 1
            /\ pc' = "loop"
            /\ u_seq' = <<>>
       ELSE /\ Len(u_seq) < MaxTries
            /\ u_seq' = Append(u_seq, r)
            /\ UNCHANGED <<res, idx, pc>>
    /\ UNCHANGED <<fn, arg_x, arg_th, arg_lt, arg_lg, arg_n, junk>>

\* lines 79-98: one pass of a uniform-envelope loop
rng_tnorm_uniform ==
    /\ pc = "reject"
    /\ fn = "cpp_rtnorm"
    /\ rng_tnorm_loop(rtnorm_za, rtnorm_zb) # "normal"
    /\ \E r \in runif(rtnorm_za, rtnorm_zb) :
          \E stop \in ratio_test(rng_tnorm_exponent(
                          rng_tnorm_loop(rtnorm_za, rtnorm_zb),
                          rtnorm_za, rtnorm_zb, r)) :
              rng_tnorm_next(stop, r)

\* lines 99-104: one pass of the loop that draws from the normal distribution
rng_tnorm_normal ==
    /\ pc = "reject"
    /\ fn = "cpp_rtnorm"
    /\ rng_tnorm_loop(rtnorm_za, rtnorm_zb) = "normal"
    /\ \E r \in rnorm01(rtnorm_za, rtnorm_zb) :
          rng_tnorm_next(Gt(r, rtnorm_za) /\ Lt(r, rtnorm_zb), r)

cpp_rtnorm_return ==
    /\ pc = "loop"
    /\ fn = "cpp_rtnorm"
    /\ idx = arg_n
    /\ res' = [res EXCEPT !.status = "ok"]
    /\ pc' = "done"
    /\ UNCHANGED <<fn, arg_x, arg_th, arg_lt, arg_lg, arg_n, junk, idx, u_seq>>

\* the values rng_dunif(min, max) can return, with their diagnostic
rng_dunif(min, max) ==
    IF ISNAN(min) \/ ISNAN(max) THEN {Ret(NA_REAL)}
    ELSE IF dunif_invalid(min, max) THEN {Warn}
    ELSE IF Eq(min, max) THEN {Ret(min)}
    ELSE {Ret(Ceil(r)) : r \in runif(Sub(min, One), max)}

\* the sizes and the result vector of cpp_rdunif
cpp_rdunif_begin ==
    /\ pc = "ready"
    /\ fn = "cpp_rdunif"
    /\ pc' = "loop"
    /\ res' = Running(arg_n)
    /\ idx' = 0
    /\ UNCHANGED <<fn, arg_x, arg_th, arg_lt, arg_lg, arg_n, junk, u_seq>>

\* x[i] = rng_dunif(min[i % na], max[i % nb])
cpp_rdunif_iter ==
    /\ pc = "loop"
    /\ fn = "cpp_rdunif"
    /\ idx < arg_n
    /\ LET na == Len(arg_th[1])
           nb == Len(arg_th[2])
           min == At(arg_th[1], idx % na)
           max == At(arg_th[2], idx % nb)
       IN  \E e \in rng_dunif(min, max) :
              res' = [res EXCEPT !.val[idx + 1] = e.v,
                                 !.warn = @ + e.w,
                                 !.used = Append(@, <<min, max>>)]
    /\ idx' = idx + 1
    /\ UNCHANGED <<fn, arg_x, arg_th, arg_lt, arg_lg, arg_n, junk, pc, u_seq>>

cpp_rdunif_return ==
    /\ pc = "loop"
    /\ fn = "cpp_rdunif"
    /\ idx = arg_n
    /\ res' = [res EXCEPT !.status = "ok"]
    /\ pc' = "done"
    /\ UNCHANGED <<fn, arg_x, arg_th, arg_lt, arg_lg, arg_n, junk, idx, u_seq>>

(***************************************************************************)
(* The calls that are explored                                             *)
(***************************************************************************)
MaxLen == 3     \* longest input vector
MaxRows == 2    \* most rows of a mixture matrix
MaxK == 2       \* most mixture components

\* -- calls with valid values that differ by position, of every length ------
PosX(d, j) ==
    CASE d \in {"lomax", "power", "power_part000", "gompertz"} -> Rat(j, 2)
      [] d = "kumar" -> Rat(j, j + 1)
      [] d \in {"dweibull", "dunif", "mixnorm"} -> Whole(j - 1)
      [] d = "gumbel" -> Whole(j)
      [] d = "tnorm" -> Whole(j - 2)

PosP(j) == Rat(j, j + 1)

PosTh(d, k, j) ==
    CASE d \in {"lomax", "kumar", "gompertz"} -> Whole(j)
      [] d \in {"power", "power_part000"} -> (IF k = 1 THEN Whole(j + 2) ELSE Whole(j))
      [] d = "dweibull" -> (IF k = 1 THEN Rat(1, j + 1) ELSE Rat(j, 2))
      [] d = "dunif" -> (IF k = 1 THEN Whole(1 - j) ELSE Whole(j))
      [] d = "gumbel" -> (IF k = 1 THEN Whole(j - 1) ELSE Whole(j))
      [] d = "tnorm" ->
            (CASE k = 1 -> Whole(j - 2)
               [] k = 2 -> Whole(j)
               [] k = 3 -> Whole(-j - 3)
               [] k = 4 -> Whole(j + 3))

NTh(d) == IF d = "tnorm" THEN 4 ELSE 2

\* the first argument: points x, probabilities p, or log-probabilities
FirstArg(f, lg, v) ==
    IF Kind(f) = "q" /\ lg THEN LogEach(v, Len(v)) ELSE v

PosFirst(f, len) ==
    [j \in 1..len |-> IF Kind(f) = "q" THEN PosP(j) ELSE PosX(Dist(f), j)]

Flags(f) == IF Kind(f) = "d" THEN {TRUE} ELSE BOOLEAN

JunkVals == {NA_REAL, Whole(9)}

InitShape ==
    /\ fn \in VecFns
    /\ arg_lg \in BOOLEAN
    /\ arg_lt \in Flags(fn)
    /\ \E len \in 1..MaxLen : arg_x = FirstArg(fn, arg_lg, PosFirst(fn, len))
    /\ \E lens \in [1..NTh(Dist(fn)) -> 1..MaxLen] :
          arg_th = [k \in 1..NTh(Dist(fn)) |->
                       [j \in 1..lens[k] |-> PosTh(Dist(fn), k, j)]]
    /\ arg_n = 0
    /\ junk \in JunkVals
    /\ pc = "ready"
    /\ res = NoRes
    /\ idx = 0
    /\ u_seq = <<>>

\* -- calls of one or two elements with missing, invalid and edge values ----
Half == [k |-> "num", n |-> 1, d |-> 2, a |-> <<>>]

XPool(d) ==
    CASE d = "lomax" -> {NA_REAL, Whole(-1), Zero, One, R_PosInf}
      [] d = "kumar" -> {NA_REAL, Whole(-1), Zero, Half, One, Whole(2)}
      [] d \in {"power", "power_part000"} ->
            {NA_REAL, Whole(-1), Zero, One, Whole(2), Whole(3)}
      [] d = "dweibull" -> {NA_REAL, Whole(-1), Zero, Half, One, R_PosInf}
      [] d = "dunif" ->
            {NA_REAL, R_NegInf, Whole(-1), Zero, Half, One, Rat(3, 2), Whole(2),
             Whole(3), R_PosInf}
      [] d = "gumbel" -> {NA_REAL, R_NegInf, Zero, One, R_PosInf}
      [] d = "gompertz" -> {NA_REAL, Whole(-1), Zero, One, R_PosInf}
      [] d = "tnorm" -> {NA_REAL, Whole(-2), Whole(-1), Zero, One, Whole(2), R_PosInf}

PPool == {NA_REAL, Zero, Rat(1, 4), Half, One}
PPoolBad == {Rat(-1, 2), Rat(3, 2)}

ThPool(d, k) ==
    CASE d \in {"lomax", "kumar"} ->
            (IF k = 1 THEN {NA_REAL, Whole(-1), One, Whole(2)}
             ELSE {NA_REAL, Zero, One, Whole(2)})
      [] d \in {"power", "power_part000"} ->
            (IF k = 1 THEN {NA_REAL, Whole(-1), Whole(2)}
             ELSE {NA_REAL, Whole(-1), One, Whole(2)})
      [] d = "dweibull" ->
            (IF k = 1 THEN {NA_REAL, Whole(-1), Half, One}
             ELSE {NA_REAL, Whole(-1), One, Whole(2)})
      [] d = "dunif" ->
            (IF k = 1 THEN {NA_REAL, Zero, One, Half}
             ELSE {NA_REAL, Zero, Whole(2), Rat(5, 2), R_PosInf})
      [] d = "gumbel" ->
            (IF k = 1 THEN {NA_REAL, Zero} ELSE {NA_REAL, Whole(-1), Zero, One})
      [] d = "gompertz" ->
            (IF k = 1 THEN {NA_REAL, Whole(-1), One} ELSE {NA_REAL, Zero, One})
      [] d = "tnorm" ->
            (CASE k = 1 -> {NA_REAL, Zero}
               [] k = 2 -> {NA_REAL, Whole(-1), One}
               [] k = 3 -> {NA_REAL, R_NegInf, Whole(-1)}
               [] k = 4 -> {NA_REAL, One, R_PosInf, Whole(-2)})

FirstPool(f, lg) ==
    IF Kind(f) = "q" THEN (IF lg THEN PPool ELSE PPool \cup PPoolBad)
    ELSE XPool(Dist(f))

\* <<v>>, or <<v, the valid value of position 2>>
InitValue ==
    /\ fn \in VecFns
    /\ arg_lg \in BOOLEAN
    /\ arg_lt \in Flags(fn)
    /\ \E len \in 1..2 :
          /\ \E v \in FirstPool(fn, arg_lg) :
                arg_x = FirstArg(fn, arg_lg,
                           [j \in 1..len |-> IF j = 1 THEN v
                                             ELSE PosFirst(fn, 2)[2]])
          /\ \E vs \in [1..NTh(Dist(fn)) -> UNION {ThPool(Dist(fn), k) :
                                                      k \in 1..NTh(Dist(fn))}] :
                /\ \A k \in 1..NTh(Dist(fn)) : vs[k] \in ThPool(Dist(fn), k)
                /\ arg_th = [k \in 1..NTh(Dist(fn)) |->
                                [j \in 1..len |-> IF j = 1 THEN vs[k]
                                                  ELSE PosTh(Dist(fn), k, 2)]]
    /\ arg_n = 0
    /\ junk \in JunkVals
    /\ pc = "ready"
    /\ res = NoRes
    /\ idx = 0
    /\ u_seq = <<>>

\* -- the worked examples of the documentation --------------------------
Scenarios ==
    {[f |-> "cpp_dlomax", x |-> <<One, Whole(2), Whole(3)>>,
      th |-> << <<One>>, <<Whole(2)>> >>],
     [f |-> "cpp_pdunif", x |-> <<Whole(-1), Zero, Whole(5)>>,
      th |-> << <<Zero>>, <<Whole(9)>> >>],
     [f |-> "cpp_qgumbel", x |-> <<Half>>,
      th |-> << <<Zero>>, <<One>> >>]}

InitScen ==
    /\ \E sc \in Scenarios : fn = sc.f /\ arg_x = sc.x /\ arg_th = sc.th
    /\ arg_lg = FALSE
    /\ arg_lt = TRUE
    /\ arg_n = 0
    /\ junk \in JunkVals
    /\ pc = "ready"
    /\ res = NoRes
    /\ idx = 0
    /\ u_seq = <<>>

\* -- mixture calls: every shape, valid values that differ by position ------
PosMat(k, rows, cols) ==
    [r \in 1..rows |-> [c \in 1..cols |->
        CASE k = 1 -> Whole(r + c - 2)
          [] k = 2 -> Whole(r)
          [] k = 3 -> Whole(r + c - 1)]]

InitMixShape ==
    /\ fn \in MixFns
    /\ arg_lg \in (IF fn = "cpp_rmixnorm" THEN {FALSE} ELSE BOOLEAN)
    /\ arg_lt \in (IF fn = "cpp_pmixnorm" THEN BOOLEAN ELSE {TRUE})
    /\ IF fn = "cpp_rmixnorm"
       THEN arg_x = <<>> /\ arg_n \in 0..MaxLen
       ELSE arg_n = 0 /\ \E len \in 1..MaxLen : arg_x = [j \in 1..len |-> PosX("mixnorm", j)]
    /\ \E rows \in [1..3 -> 1..MaxRows] : \E cols \in [1..3 -> 1..MaxK] :
          arg_th = [k \in 1..3 |-> PosMat(k, rows[k], cols[k])]
    /\ junk \in JunkVals
    /\ pc = "ready"
    /\ res = NoRes
    /\ idx = 0
    /\ u_seq = <<>>

\* -- mixture calls of one row of two components, with missing, invalid and
\* -- edge values
MixAlpha == {NA_REAL, Whole(-1), Zero, One, Whole(3)}
MixSigmaRows == {<<One, One>>, <<Zero, One>>, <<One, Whole(-1)>>, <<NA_REAL, One>>,
                 <<One, Whole(2)>>}
MixMuRows == {<<Zero, Zero>>, <<Zero, One>>, <<NA_REAL, Zero>>}
MixX == {NA_REAL, R_NegInf, Zero, One, R_PosInf}

InitMixValue ==
    /\ fn \in MixFns
    /\ arg_lg \in (IF fn = "cpp_rmixnorm" THEN {FALSE} ELSE BOOLEAN)
    /\ arg_lt \in (IF fn = "cpp_pmixnorm" THEN BOOLEAN ELSE {TRUE})
    /\ IF fn = "cpp_rmixnorm"
       THEN arg_x = <<>> /\ arg_n = 1
       ELSE arg_n = 0 /\ \E v \in MixX : arg_x = <<v>>
    /\ \E m \in MixMuRows : \E sg \in MixSigmaRows :
       \E a1 \in MixAlpha : \E a2 \in MixAlpha :
          arg_th = << <<m>>, <<sg>>, << <<a1, a2>> >> >>
    /\ junk = NA_REAL
    /\ pc = "ready"
    /\ res = NoRes
    /\ idx = 0
    /\ u_seq = <<>>

\* -- quantile calls on the probabilities k/m ----------------------------
MaxDen == 4
MaxSpan == 3
QuantileFns ==
    {"cpp_qlomax", "cpp_qkumar", "cpp_qpower_part000", "cpp_qpower",
     "cpp_qgumbel", "cpp_qgompertz", "cpp_qdunif"}

ProbPool ==
    {Rat(c[1], c[2]) :
        c \in {e \in (1..(MaxDen - 1)) \X (2..MaxDen) : e[1] < e[2]}}

QuantileTh(d) ==
    CASE d = "dunif" ->
            {<<Whole(lo), Whole(lo + w)>> : lo \in -1..1, w \in 0..MaxSpan}
      [] d = "gumbel" -> {<<Whole(m), Whole(s)>> : m \in -1..1, s \in 1..2}
      [] OTHER -> {<<Whole(a), Whole(b)>> : a \in 1..2, b \in 1..2}

InitQuantile ==
    /\ fn \in QuantileFns
    /\ arg_lg \in BOOLEAN
    /\ arg_lt \in BOOLEAN
    /\ \E v \in ProbPool :
          arg_x = FirstArg(fn, arg_lg, <<v>>)
    /\ \E th \in QuantileTh(Dist(fn)) : arg_th = <<<<th[1]>>, <<th[2]>>>>
    /\ arg_n = 0
    /\ junk \in JunkVals
    /\ pc = "ready"
    /\ res = NoRes
    /\ idx = 0
    /\ u_seq = <<>>

\* -- sampling calls ------------------------------------------------------
\* a and b that are in order element by element, not across the elements
SampleShape(f, k, j) ==
    IF f = "cpp_rtnorm"
    THEN (CASE k = 1 -> Zero
            [] k = 2 -> One
            [] k = 3 -> Whole(5 * j - 5)
            [] k = 4 -> Whole(5 * j - 4))
    ELSE (IF k = 1 THEN Whole(1 - j) ELSE Whole(j + 1))

SamplePool(f, k) ==
    IF f = "cpp_rtnorm"
    THEN (CASE k = 1 -> {NA_REAL, Zero}
            [] k = 2 -> {NA_REAL, Whole(-1), One, Whole(2)}
            [] k = 3 -> {NA_REAL, R_NegInf, Whole(-1), Zero, One}
            [] k = 4 -> {NA_REAL, Whole(-1), Zero, One, Whole(2), R_PosInf})
    ELSE (IF k = 1 THEN {NA_REAL, R_NegInf, Zero, Half, One}
          ELSE {NA_REAL, Zero, One, Whole(3), R_PosInf})

InitSample ==
    /\ fn \in SampleFns
    /\ arg_lg = FALSE
    /\ arg_lt = TRUE
    /\ arg_x = <<>>
    /\ arg_n \in 1..MaxK
    /\ \/ \E lens \in [1..NTh(Dist(fn)) -> 1..MaxK] :
             arg_th = [k \in 1..NTh(Dist(fn)) |->
                          [j \in 1..lens[k] |-> SampleShape(fn, k, j)]]
       \/ \E vs \in [1..NTh(Dist(fn)) -> UNION {SamplePool(fn, k) :
                                                   k \in 1..NTh(Dist(fn))}] :
             /\ \A k \in 1..NTh(Dist(fn)) : vs[k] \in SamplePool(fn, k)
             /\ arg_th = [k \in 1..NTh(Dist(fn)) |-> <<vs[k]>>]
    /\ junk \in JunkVals
    /\ pc = "ready"
    /\ res = NoRes
    /\ idx = 0
    /\ u_seq = <<>>

Init ==
    \/ InitShape \/ InitValue \/ InitScen \/ InitMixShape \/ InitMixValue
    \/ InitQuantile \/ InitSample

Next ==
    \/ call_cpp_dlomax
    \/ call_cpp_plomax
    \/ call_cpp_qlomax
    \/ call_cpp_dkumar
    \/ call_cpp_pkumar
    \/ call_cpp_qkumar
    \/ call_cpp_dpower_part000
    \/ call_cpp_ppower_part000
    \/ call_cpp_qpower_part000
    \/ call_cpp_dpower
    \/ call_cpp_ppower
    \/ call_cpp_qpower
    \/ call_cpp_ddweibull
    \/ call_cpp_pdweibull
    \/ call_cpp_qdweibull
    \/ call_cpp_ddunif
    \/ call_cpp_pdunif
    \/ call_cpp_qdunif
    \/ call_cpp_dgumbel
    \/ call_cpp_pgumbel
    \/ call_cpp_qgumbel
    \/ call_cpp_dgompertz
    \/ call_cpp_pgompertz
    \/ call_cpp_qgompertz
    \/ call_cpp_dtnorm
    \/ call_cpp_ptnorm
    \/ call_cpp_qtnorm
    \/ cpp_dmixnorm_begin
    \/ cpp_dmixnorm_iter
    \/ cpp_dmixnorm_return
    \/ cpp_pmixnorm_begin
    \/ cpp_pmixnorm_iter
    \/ cpp_pmixnorm_return
    \/ cpp_rmixnorm_begin
    \/ cpp_rmixnorm_iter
    \/ cpp_rmixnorm_return
    \/ cpp_rtnorm_begin
    \/ cpp_rtnorm_iter
    \/ rng_tnorm_uniform
    \/ rng_tnorm_normal
    \/ cpp_rtnorm_return
    \/ cpp_rdunif_begin
    \/ cpp_rdunif_iter
    \/ cpp_rdunif_return

Spec == Init /\ [][Next]_vars

(***************************************************************************)
(* What the calls are held against                                         *)
(***************************************************************************)
\* the lengths of the inputs of the call (of a matrix, its number of rows)
InputLengths == {Len(arg_x)} \cup {Len(arg_th[k]) : k \in DOMAIN arg_th}

\* N, the length the result has to have
ExpectedN == IF Kind(fn) = "r" THEN arg_n ELSE Max(InputLengths)

\* what the recycling law reads for output element i (counted from 1): the
\* element i - 1 mod its own length of x, and of parameter k
InX(i) == arg_x[((i - 1) % Len(arg_x)) + 1]
InTh(k, i) == arg_th[k][((i - 1) % Len(arg_th[k])) + 1]
InAll(i) == <<InX(i)>> \o [k \in DOMAIN arg_th |-> InTh(k, i)]

\* C1: a density, cumulative or quantile function of the eight vector
\* distributions that returns, returns a vector whose length is the largest
\* of the lengths of its inputs
C1_OutputLength ==
    (fn \in VecFns /\ pc = "done") => Len(res.val) = ExpectedN

\* C2: in a density or cumulative call that returns, the operands of output
\* element i are element i mod L of every input, L being that input's own
\* length (of a mixture matrix, row i mod its own number of rows)
C2_Recycling ==
    (pc = "done" /\ Kind(fn) \in {"d", "p"}) =>
        \A i \in 1..Len(res.used) : res.used[i] = InAll(i)

\* a missing value among what the recycling law reads for element i
MissingAt(i) ==
    \/ InX(i) = NA_REAL
    \/ \E k \in DOMAIN arg_th :
          IF fn \in MixFns
          THEN \E c \in DOMAIN InTh(k, i) : InTh(k, i)[c] = NA_REAL
          ELSE InTh(k, i) = NA_REAL

\* C3: a density, cumulative or quantile call with a missing value among the
\* inputs of element i returns, and element i of its result is NA
C3_MissingPropagation ==
    (pc \in {"done", "error"} /\ Kind(fn) \in {"d", "p", "q"}) =>
        \A i \in 1..ExpectedN :
            MissingAt(i) =>
                /\ pc = "done"
                /\ i <= Len(res.val)
                /\ res.val[i] = NA_REAL

\* the scale and shape parameters of a distribution, by position
ScaleShape(d) ==
    CASE d \in {"lomax", "kumar", "power", "power_part000", "gompertz"} -> {1, 2}
      [] d \in {"dweibull", "gumbel", "tnorm"} -> {2}
      [] OTHER -> {}

NegativeAt(i) ==
    \E k \in ScaleShape(Dist(fn)) : IsNum(InTh(k, i)) /\ InTh(k, i).n < 0

\* C4: a call of a vector function with a negative scale or shape parameter,
\* and nothing missing, among the inputs of element i returns, and element i
\* of its result is NaN
C4_DomainViolation ==
    (pc \in {"done", "error"} /\ fn \in VecFns) =>
        \A i \in 1..ExpectedN :
            (NegativeAt(i) /\ ~MissingAt(i)) =>
                /\ pc = "done"
                /\ i <= Len(res.val)
                /\ res.val[i] = NAN

\* the cumulative function f called on x and the parameters t
Cumulative(f, x, t, lt, lg) ==
    CASE f = "cpp_plomax" -> cpp_plomax(x, t[1], t[2], lt, lg)
      [] f = "cpp_pkumar" -> cpp_pkumar(x, t[1], t[2], lt, lg)
      [] f = "cpp_ppower_part000" -> cpp_ppower_part000(x, t[1], t[2], lt, lg)
      [] f = "cpp_ppower" -> cpp_ppower(x, t[1], t[2], lt, lg)
      [] f = "cpp_pdweibull" -> cpp_pdweibull(x, t[1], t[2], lt, lg)
      [] f = "cpp_pdunif" -> cpp_pdunif(x, t[1], t[2], lt, lg)
      [] f = "cpp_pgumbel" -> cpp_pgumbel(x, t[1], t[2], lt, lg)
      [] f = "cpp_pgompertz" -> cpp_pgompertz(x, t[1], t[2], lt, lg)
      [] f = "cpp_ptnorm" -> cpp_ptnorm(x, t[1], t[2], t[3], t[4], lt, lg)
      [] f = "cpp_pmixnorm" -> cpp_pmixnorm(x, t[1], t[2], t[3], lt, lg)

Min(S) == CHOOSE m \in S : \A n \in S : m <= n

Positive(v) == IsNum(v) /\ v.n > 0
Integral(v) == IsNum(v) /\ v.d = 1
Below(v, w) == IsNum(v) /\ IsNum(w) /\ v.n * w.d < w.n * v.d

\* the parameters th of distribution d are in its domain
ValidParams(d, th) ==
    CASE d \in {"lomax", "kumar", "power", "power_part000", "gompertz"} ->
            Positive(th[1]) /\ Positive(th[2])
      [] d = "dweibull" -> Positive(th[1]) /\ Below(th[1], One) /\ Positive(th[2])
      [] d = "dunif" ->
            Integral(th[1]) /\ Integral(th[2]) /\ ~Below(th[2], th[1])
      [] d = "gumbel" -> IsNum(th[1]) /\ Positive(th[2])
      [] d = "tnorm" -> IsNum(th[1]) /\ Positive(th[2]) /\ Lt(th[3], th[4])
      [] d = "mixnorm" ->
            /\ \A c \in DOMAIN th[1] : IsNum(th[1][c])
            /\ \A c \in DOMAIN th[2] : Positive(th[2][c])
            /\ \A c \in DOMAIN th[3] : IsNum(th[3][c]) /\ th[3][c].n >= 0
            /\ \E c \in DOMAIN th[3] : Positive(th[3][c])

\* the inputs of element i are valid: a point that is a number or an
\* infinity, parameters in the domain
ValidAt(i) ==
    /\ ~ISNAN(InX(i))
    /\ ValidParams(Dist(fn), [k \in DOMAIN arg_th |-> InTh(k, i)])

Exact(v) == ~IsSym(v)

\* C5: a cumulative call with lower_tail = false and log = false returns, for
\* every element with valid inputs, one minus what the call with
\* lower_tail = true returns (compared where both are worked out exactly)
C5_UpperTail ==
    (pc = "done" /\ Kind(fn) = "p" /\ ~arg_lt /\ ~arg_lg) =>
        LET lower == Cumulative(fn, arg_x, arg_th, TRUE, FALSE).val
        IN  \A i \in 1..Min({Len(res.val), Len(lower)}) :
                (ValidAt(i) /\ Exact(res.val[i]) /\ Exact(lower[i])) =>
                    res.val[i] = Sub(One, lower[i])

\* C6: a cumulative call with log = true returns, for every element of the
\* full output length with valid inputs, the logarithm of what the call with
\* log = false and the same lower_tail returns
C6_LogScale ==
    (pc = "done" /\ Kind(fn) = "p" /\ arg_lg) =>
        LET plain == Cumulative(fn, arg_x, arg_th, arg_lt, FALSE).val
        IN  \A i \in 1..ExpectedN :
                ValidAt(i) =>
                    /\ i <= Len(res.val)
                    /\ i <= Len(plain)
                    /\ res.val[i] = Log(plain[i])

\* the distributions of bounded support, the points below the support and
\* the points at or above its upper end
BoundedSupport == {"kumar", "tnorm", "power", "power_part000", "dunif", "gompertz"}

BelowSupport(d, x, th) ==
    CASE d \in {"kumar", "power", "power_part000", "gompertz"} -> Lt(x, Zero)
      [] d = "tnorm" -> Lt(x, th[3])
      [] d = "dunif" -> Lt(x, th[1])

AboveSupport(d, x, th) ==
    CASE d = "kumar" -> Gt(x, One)
      [] d = "tnorm" -> Ge(x, th[4])
      [] d \in {"power", "power_part000"} -> Ge(x, th[1])
      [] d = "dunif" -> Ge(x, th[2])
      [] d = "gompertz" -> x = R_PosInf

\* C8: the cumulative function of a distribution of bounded support, called
\* with lower_tail = true and log = false, gives 0 for operands with valid
\* parameters and a point below the support, and 1 for a point at or above
\* the upper end of the support
C8_Saturation ==
    (pc = "done" /\ Kind(fn) = "p" /\ arg_lt /\ ~arg_lg
        /\ Dist(fn) \in BoundedSupport) =>
        \A i \in 1..Min({Len(res.val), Len(res.used)}) :
            LET x == res.used[i][1]
                th == Tail(res.used[i])
            IN  (~ISNAN(x) /\ ValidParams(Dist(fn), th)) =>
                    /\ BelowSupport(Dist(fn), x, th) => res.val[i] = Zero
                    /\ AboveSupport(Dist(fn), x, th) => res.val[i] = One

\* the column counts of the three matrices of a mixture call differ
ColumnsDiffer ==
    \E k \in 1..3 : \E l \in 1..3 : Len(arg_th[k][1]) # Len(arg_th[l][1])

\* C7: a mixture call (density, cumulative or sample) whose matrices differ in
\* their column counts ends in the error as its first and only step: no
\* element is computed, no diagnostic is emitted, no random number is drawn,
\* no result vector is handed back
C7_MismatchFatal ==
    (fn \in MixFns /\ ColumnsDiffer /\ pc # "ready") =>
        /\ pc = "error"
        /\ res.status = "error"
        /\ res.val = <<>>
        /\ res.used = <<>>
        /\ res.warn = 0
        /\ u_seq = <<>>
        /\ idx = 0

C7_Witness ==
    /\ fn = "cpp_rmixnorm"
    /\ arg_n > 0
    /\ Len(arg_th[2][1]) # Len(arg_th[3][1])
    /\ pc = "error"

\* a point of the discrete Weibull or discrete uniform distribution that is
\* not a whole number or lies outside the support
OffSupport(d, x, th) ==
    \/ IsInf(x)
    \/ IsNum(x) /\ x.d # 1
    \/ IF d = "dweibull" THEN IsNum(x) /\ x.n < 0
       ELSE Below(x, th[1]) \/ Below(th[2], x)

\* the elements of a discrete density call with valid parameters and such a
\* point, and the elements that are not missing and have invalid parameters
OffSupportElements ==
    {i \in 1..ExpectedN :
        ValidAt(i) /\ OffSupport(Dist(fn), InX(i), <<InTh(1, i), InTh(2, i)>>)}
InvalidElements ==
    {i \in 1..ExpectedN :
        ~MissingAt(i)
        /\ ~ValidParams(Dist(fn), <<InTh(1, i), InTh(2, i)>>)}

IsDunifCdf(v, x, min, max) ==
    IF x = R_NegInf \/ Below(x, min) THEN v = Zero
    ELSE IF x = R_PosInf \/ ~Below(x, max) THEN v = One
    ELSE /\ IsNum(v)
         /\ v.n * (max.n - min.n + 1) = ((x.n \div x.d) - min.n + 1) * v.d

\* C10: a call of the discrete uniform cumulative function with
\* lower_tail = true and log = false returns, for every element with whole
\* min <= max and a point that is not missing, 0 below min, 1 from max on and
\* (floor(x) - min + 1) / (max - min + 1) between; x = [-1, 0, 5] with
\* min = [0] and max = [9] gives [0, 1/10, 6/10]
C10_DunifCdf ==
    (fn = "cpp_pdunif" /\ pc # "ready" /\ arg_lt /\ ~arg_lg) =>
        /\ pc = "done"
        /\ Len(res.val) = ExpectedN
        /\ \A i \in 1..ExpectedN :
              ValidAt(i) => IsDunifCdf(res.val[i], InX(i), InTh(1, i), InTh(2, i))
        /\ (arg_x = <<Whole(-1), Zero, Whole(5)>>
              /\ arg_th = << <<Zero>>, <<Whole(9)>> >>) =>
                 res.val = <<Zero, Rat(1, 10), Rat(6, 10)>>

C10_Witness ==
    /\ fn = "cpp_pdunif"
    /\ pc = "done"
    /\ arg_x = <<Whole(-1), Zero, Whole(5)>>
    /\ arg_th = << <<Zero>>, <<Whole(9)>> >>
    /\ res.val[2] = [k |-> "num", n |-> 1, d |-> 10, a |-> <<>>]
    /\ res.val[3] = [k |-> "num", n |-> 3, d |-> 5, a |-> <<>>]

\* -- C11 ---------------------------------------------------------------
\* the cumulative function of the distribution of the quantile function f
CumulativeOf(f) ==
    CASE f = "cpp_qlomax" -> "cpp_plomax"
      [] f = "cpp_qkumar" -> "cpp_pkumar"
      [] f = "cpp_qpower_part000" -> "cpp_ppower_part000"
      [] f = "cpp_qpower" -> "cpp_ppower"
      [] f = "cpp_qgumbel" -> "cpp_pgumbel"
      [] f = "cpp_qgompertz" -> "cpp_pgompertz"
      [] f = "cpp_qdunif" -> "cpp_pdunif"

\* the lower-tail cumulative probability at the point q under the
\* parameters the kernel had for element i
CumulativeAt(q, i) ==
    Cumulative(CumulativeOf(fn), <<q>>,
               <<<<res.used[i][2]>>, <<res.used[i][3]>>>>, TRUE, FALSE).val[1]

\* element i of a returned quantile call had a probability strictly between
\* 0 and 1 and parameters in the domain
RoundTripAt(i) ==
    /\ IsNum(res.used[i][1])
    /\ Below(Zero, res.used[i][1]) /\ Below(res.used[i][1], One)
    /\ ValidParams(Dist(fn), <<res.used[i][2], res.used[i][3]>>)

PowFns == {"cpp_qlomax", "cpp_qkumar", "cpp_qpower_part000", "cpp_qpower"}
LogFns == {"cpp_qgumbel", "cpp_qgompertz"}

\* C11: for a probability p strictly between 0 and 1 and parameters in the
\* domain, the cumulative function at the quantile of p is p for Lomax,
\* power, Kumaraswamy (where the root is a rational number), Gumbel and
\* Gompertz; the discrete uniform quantile q is an integer of [min, max]
\* with cumulative(q - 1) < p <= cumulative(q)
C11_RoundTrip ==
    (pc = "done" /\ fn \in QuantileFns) =>
        \A i \in 1..Len(res.val) :
            RoundTripAt(i) =>
                CASE fn \in PowFns ->
                        IsNum(res.val[i]) => CumulativeAt(res.val[i], i) = res.used[i][1]
                  [] fn \in LogFns ->
                        CumulativeAt(res.val[i], i) = res.used[i][1]
                  [] fn = "cpp_qdunif" ->
                        /\ Integral(res.val[i])
                        /\ ~Below(res.val[i], res.used[i][2])
                        /\ ~Below(res.used[i][3], res.val[i])
                        /\ Below(CumulativeAt(Sub(res.val[i], One), i),
                                 res.used[i][1])
                        /\ ~Below(CumulativeAt(res.val[i], i), res.used[i][1])

\* a round trip of each kind has been made: a rational root, a logarithm,
\* and a discrete uniform quantile strictly inside a support of several points
C11_Witness ==
    /\ pc = "done" /\ fn \in QuantileFns
    /\ Len(res.val) = 1 /\ RoundTripAt(1)
    /\ \/ fn = "cpp_qkumar" /\ res.val[1] = Half /\ res.used[1][3] = Whole(2)
       \/ fn = "cpp_qgompertz" /\ res.used[1][2] = Whole(2)
             /\ res.used[1][3] = One
       \/ fn = "cpp_qdunif" /\ Below(res.used[1][2], res.val[1])
             /\ Below(res.val[1], res.used[1][3])
\* -- C12 ---------------------------------------------------------------
\* C12: a returned cpp_qtnorm call with lower_tail = true and log = false
\* that stayed inside its vectors holds, for every element, the inverse-CDF value
\* InvPhi(Phi(za) + p * (Phi(zb) - Phi(za))) of the operands its loop read
\* (compared where both sides are worked out exactly)
C12_TnormQuantile ==
    (pc = "done" /\ fn = "cpp_qtnorm" /\ arg_lt /\ ~arg_lg /\ ~res.oob) =>
        \A i \in 1..Len(res.val) :
            LET u == res.used[i]
                q == invcdf_tnorm(u[1], u[2], u[3], u[4], u[5])
            IN  (/\ ValidParams("tnorm", <<u[2], u[3], u[4], u[5]>>)
                 /\ Exact(q) /\ Exact(res.val[i])) => res.val[i] = q
\* -- C13 ---------------------------------------------------------------
Quantile(f, p, t, lt, lg) ==
    CASE f = "cpp_qlomax" -> cpp_qlomax(p, t[1], t[2], lt, lg)
      [] f = "cpp_qkumar" -> cpp_qkumar(p, t[1], t[2], lt, lg)
      [] f = "cpp_qpower_part000" -> cpp_qpower_part000(p, t[1], t[2], lt, lg)
      [] f = "cpp_qpower" -> cpp_qpower(p, t[1], t[2], lt, lg)
      [] f = "cpp_qdweibull" -> cpp_qdweibull(p, t[1], t[2], lt, lg)
      [] f = "cpp_qdunif" -> cpp_qdunif(p, t[1], t[2], lt, lg)
      [] f = "cpp_qgumbel" -> cpp_qgumbel(p, t[1], t[2], lt, lg)
      [] f = "cpp_qgompertz" -> cpp_qgompertz(p, t[1], t[2], lt, lg)
      [] f = "cpp_qtnorm" -> cpp_qtnorm(p, t[1], t[2], t[3], t[4], lt, lg)

\* the probabilities the flags stand for: exp(p) when log is set, then
\* 1 - p when lower_tail is not
Adjusted(p, lt, lg) ==
    LET p1 == IF lg THEN ExpEach(p, Len(p)) ELSE p
    IN  IF ~lt THEN Complement(p1, Len(p1)) ELSE p1

\* C13: a returned quantile call holds what the same function returns, with
\* lower_tail = true and log = false, for the probabilities adjusted
\* beforehand (exp for log, then 1 - p for the upper tail); compared on the
\* elements with valid inputs where both are worked out exactly
C13_AdjustBeforeKernel ==
    (pc = "done" /\ Kind(fn) = "q" /\ ~res.oob) =>
        LET plain == Quantile(fn, Adjusted(arg_x, arg_lt, arg_lg), arg_th,
                              TRUE, FALSE)
        IN  /\ plain.status = "ok"
            /\ Len(plain.val) = Len(res.val)
            /\ \A i \in 1..Len(res.val) :
                  (ValidAt(i) /\ Exact(plain.val[i]) /\ Exact(res.val[i])) =>
                      plain.val[i] = res.val[i]
\* -- C14 ---------------------------------------------------------------
\* C14: when a call has returned, the caller's first argument (the points,
\* or the probabilities of a quantile call) holds what it held before the
\* call
C14_InputsUnchanged ==
    (pc = "done" /\ fn \in VecFns) => res.arg1 = arg_x
\* -- C15 ---------------------------------------------------------------
Scales == {Half, Whole(2), Whole(3)}

\* the matrix alpha with every entry multiplied by c
ScaledBy(c, alpha) ==
    [r \in 1..nrow(alpha) |-> [j \in 1..ncol(alpha) |-> Mul(c, alpha[r][j])]]

\* the row of alpha that element i reads, and whether its entries are all
\* non-negative and finite
AlphaRow(i) == arg_th[3][((i - 1) % nrow(arg_th[3])) + 1]
NonNegFinite(row) == \A j \in DOMAIN row : IsNum(row[j]) /\ row[j].n >= 0

\* C15: a returned cpp_dmixnorm call holds, for every element whose alpha
\* row is non-negative and finite, what the call with alpha multiplied by
\* c > 0 returns for that element
C15_ScaleInvariance ==
    (pc = "done" /\ fn = "cpp_dmixnorm") =>
        \A c \in Scales :
            LET scaled == cpp_dmixnorm(arg_x, arg_th[1], arg_th[2],
                                       ScaledBy(c, arg_th[3]), arg_lg)
            IN  /\ scaled.status = "ok"
                /\ Len(scaled.val) = Len(res.val)
                /\ \A i \in 1..Len(res.val) :
                      NonNegFinite(AlphaRow(i)) => scaled.val[i] = res.val[i]

\* a density has been returned for a row of two positive weights that do
\* not sum to one, and it is a positive number
C15_Witness ==
    /\ pc = "done" /\ fn = "cpp_dmixnorm" /\ ~arg_lg
    /\ \E i \in 1..Len(res.val) :
          /\ Len(AlphaRow(i)) = 2
          /\ Positive(AlphaRow(i)[1]) /\ Positive(AlphaRow(i)[2])
          /\ Add(AlphaRow(i)[1], AlphaRow(i)[2]) # One
          /\ Positive(res.val[i])
\* -- C16 ---------------------------------------------------------------
\* the rows of mu, sigma and alpha that element i reads
RowOf(M, i) == M[((i - 1) % nrow(M)) + 1]

\* the row of element i is valid: numbers for mu, positive sigma,
\* non-negative weights with a positive one
ValidRow(i) ==
    ValidParams("mixnorm", <<RowOf(mu_, i), RowOf(sigma_, i), RowOf(alpha_, i)>>)

RECURSIVE SeqSum(_, _)
SeqSum(row, j) == IF j > Len(row) THEN Zero ELSE Add(row[j], SeqSum(row, j + 1))

\* the running total after the components K, K-1, .., j (counted from 1)
\* have been subtracted: 1.0 minus their normalized weights
RunningTotal(row, j) == Sub(One, Div(SeqSum(row, j), SeqSum(row, 1)))

\* the components at which u exceeds the running total
Exceeding(row, u) == {j \in 1..Len(row) : Gt(u, RunningTotal(row, j))}

NoMissing(i) ==
    /\ \A j \in DOMAIN RowOf(alpha_, i) : ~ISNAN(RowOf(alpha_, i)[j])
    /\ \A j \in DOMAIN RowOf(mu_, i) : IsNum(RowOf(mu_, i)[j])
    /\ \A j \in DOMAIN RowOf(sigma_, i) : ~ISNAN(RowOf(sigma_, i)[j])

WrongRow(i) ==
    \/ \E j \in DOMAIN RowOf(alpha_, i) : Lt(RowOf(alpha_, i)[j], Zero)
    \/ \E j \in DOMAIN RowOf(sigma_, i) : Le(RowOf(sigma_, i)[j], Zero)

\* some weight of the row of element i is not zero
SomeWeight(i) ==
    \E j \in DOMAIN RowOf(alpha_, i) : ~Eq(RowOf(alpha_, i)[j], Zero)

\* C17: in a returned cpp_dmixnorm, cpp_pmixnorm or cpp_rmixnorm call, an
\* element whose rows have no missing entry and a weight that is not zero
\* (and, for the first two, whose point is a number) is NaN exactly when
\* some alpha_j < 0 or some sigma_j <= 0
C17_SameValidity ==
    (fn \in MixFns /\ pc = "done") =>
        \A i \in 1..Len(res.val) :
            (/\ NoMissing(i)
             /\ SomeWeight(i)
             /\ fn # "cpp_rmixnorm" => (i <= Len(arg_x) /\ IsNum(arg_x[i])))
            => (res.val[i].k = "NaN" <=> WrongRow(i))
\* -- C18 ---------------------------------------------------------------
\* C18: a call that has ended (returned, thrown, or been stopped by the
\* run time) has read and written its vectors and matrices inside their
\* bounds only
C18_IndexSafety ==
    pc \in {"done", "error", "crash"} => ~res.oob
\* -- C19 ---------------------------------------------------------------
\* no element of mu, sigma, a and b is missing, and none was read past
\* the end of its vector
NumbersOnly ==
    /\ \A k \in DOMAIN arg_th : \A j \in DOMAIN arg_th[k] : ~ISNAN(arg_th[k][j])
    /\ ~res.oob

\* C19: whenever cpp_rtnorm, called without missing values, is inside a
\* rejection loop of rng_tnorm, the lower standardized bound of the element
\* being drawn is not above the upper one
C19_LoopBounds ==
    (fn = "cpp_rtnorm" /\ pc = "reject" /\ NumbersOnly) =>
        Le(rtnorm_za, rtnorm_zb)

\* -- C20 ---------------------------------------------------------------
\* C20: every element a cpp_rdunif call has drawn for integers min <= max
\* is an integer of [min, max]
C20_InSupport ==
    (fn = "cpp_rdunif" /\ pc \in {"loop", "done"}) =>
        \A i \in 1..idx :
            ValidParams("dunif", res.used[i]) =>
                /\ Integral(res.val[i])
                /\ ~Below(res.val[i], res.used[i][1])
                /\ ~Below(res.used[i][2], res.val[i])
\* -- C21 ---------------------------------------------------------------
\* the component (counted from 1) that the backward walk of element i selects
\* with the uniform value drawn for it
Selected(i) ==
    rmixnorm_pick(i - 1, ncol(alpha_) - 1, alpha_,
                  SeqSum(RowOf(alpha_, i), 1), u_seq[i], One) + 1

\* C21: in cpp_rmixnorm an element done whose row is valid (with a positive
\* weight) is the normal draw of the component the backward walk selects,
\* and that component has a positive weight, whatever uniform value of
\* [0, 1) was drawn
C21_NoZeroWeightComponent ==
    (fn = "cpp_rmixnorm" /\ pc \in {"loop", "done"}) =>
        \A i \in 1..idx :
            ValidRow(i) =>
                /\ res.val[i] = rnorm(RowOf(mu_, i)[Selected(i)],
                                      RowOf(sigma_, i)[Selected(i)])
                /\ Positive(RowOf(alpha_, i)[Selected(i)])
====
